---- MODULE Spec2Model ----
(***************************************************************************)
(* Process-launch state machine of the sbox container runtime.            *)
(*                                                                         *)
(* The caller (pid 0 of the model) starts an init process with            *)
(* InitProcessOptions::start and attaches exec processes with             *)
(* ProcessOptions::start (src/src/process.rs).  Every process created by  *)
(* clone3/fork is a row of `procs`; anonymous pipes are byte buffers with *)
(* the set of processes that hold each end.                               *)
(***************************************************************************)
EXTENDS Integers, Sequences, FiniteSets, TLC

\* ------------------------------------------------------------------ bounds
\* Number of start calls (init or exec) the caller makes in one behaviour.
MaxCalls == 2
\* Longest errno text (in bytes) a failing syscall contributes to a message.
MaxCauseLen == 1

\* ------------------------------------------------------------ basic values
Caller == 0
\* The network helper spawned by run_network (slirp4netns), as an fd holder.
Helper == -1
NoPid == 0
MaxPid == 2 * MaxCalls
Pids == 1..MaxPid

\* Paths are sequences of components; a leading "/" component is the root.
is_absolute(p) == Len(p) > 0 /\ p[1] = "/"
is_empty(p) == Len(p) = 0
join(base, name) == IF is_absolute(name) THEN name ELSE base \o name

ContainerCgroup == <<"/", "sbox">>
HostCgroup == <<"/", "host">>
\* Cgroup names a caller may pass to .cgroup(): unset, relative, absolute.
CgroupNames == {<< >>, <<"leaf">>, <<"/", "leaf">>}

\* (uid, gid) pairs a caller may pass to .user(); unset means (0, 0).  With the
\* mapper below: both mapped; uid mapped and gid not; neither mapped.
UserChoices == {<<0, 0>>, <<1000, 1000>>, <<70000, 70000>>}

\* Commands: a valid argv, an argv holding a NUL byte, an empty argv.
Commands == {"valid", "nul", "empty"}

\* ------------------------------------------------------------- user mapper
\* Ids are u32 in the source.  The model checker's integers are 32-bit signed,
\* so id arithmetic is scaled to 17 bits: sums wrap at 2^17 instead of 2^32.
U32 == 131072

\* IdMap::new_root: the single range {0 -> host id, 1}.
new_root(host_id) == [container_id |-> 0, host_id |-> host_id, size |-> 1]

\* BinNewIdMapper::get_id_subid_map: the root range, plus {1 -> start, size}
\* when /etc/subuid (/etc/subgid) has an entry (start, size) for the user.
get_id_subid_map(id, subid) ==
    IF Len(subid) = 0 THEN <<new_root(id)>>
    ELSE <<new_root(id), [container_id |-> 1, host_id |-> subid[1], size |-> subid[2]]>>

\* The container's mapper: BinNewIdMapper::new_root_subid for a user with the
\* /etc/subuid entry user:100000:65536 and no /etc/subgid entry, so uids
\* 0..65536 and gid 0 alone are mapped.
user_mapper ==
    [uid_map |-> get_id_subid_map(1000, <<100000, 65536>>),
     gid_map |-> get_id_subid_map(1000, << >>)]

\* is_id_mapped: a range is skipped when container_id + size <= id (u32 sum),
\* and accepts the id when container_id <= id.
is_id_mapped(id_map, id) ==
    \E i \in 1..Len(id_map) :
        /\ ~(((id_map[i].container_id + id_map[i].size) % U32) <= id)
        /\ id_map[i].container_id <= id

\* ------------------------------------------------------------ pipe framing
RECURSIVE to_le_bytes(_, _)
\* n.to_le_bytes() on a k-byte integer.
to_le_bytes(n, k) == IF k = 0 THEN << >> ELSE <<n % 256>> \o to_le_bytes(n \div 256, k - 1)

RECURSIVE from_le_bytes(_)
from_le_bytes(bs) == IF Len(bs) = 0 THEN 0 ELSE bs[1] + 256 * from_le_bytes(Tail(bs))

\* size_of::<usize>() on the 64-bit targets the crate supports.
UsizeBytes == 8
\* size_of::<pid_t>().
PidBytes == 4

Take(s, n) == SubSeq(s, 1, n)
Drop(s, n) == SubSeq(s, n + 1, Len(s))

\* Faulty variant of result_frame: the error frame announces and carries no
\* message bytes.
result_frame_no_msg(res) ==
    IF res.ok THEN <<0>> ELSE <<1>> \o to_le_bytes(0, UsizeBytes)

\* The bytes write_result puts on the pipe for a result.
result_frame(res) ==
    IF res.ok THEN <<0>>
    ELSE <<1>> \o to_le_bytes(Len(res.msg), UsizeBytes) \o res.msg

\* The bytes write_pid puts on the pipe.
pid_frame(p) == to_le_bytes(p, PidBytes)

\* read_exact(n) can complete: n bytes are buffered.
HasBytes(b, n) == Len(b) >= n

\* Faulty variant of read_result: end of file before the tag counts as success.
read_result_eof_ok(b) ==
    IF ~HasBytes(b, 1) THEN [kind |-> "ok", msg |-> << >>]
    ELSE IF b[1] = 0 THEN [kind |-> "ok", msg |-> << >>]
    ELSE IF b[1] = 1 THEN
        IF ~HasBytes(b, 1 + UsizeBytes) THEN [kind |-> "eof", msg |-> << >>]
        ELSE LET len == from_le_bytes(SubSeq(b, 2, 1 + UsizeBytes))
             IN  IF ~HasBytes(b, 1 + UsizeBytes + len) THEN [kind |-> "eof", msg |-> << >>]
                 ELSE [kind |-> "err",
                       msg |-> SubSeq(b, 2 + UsizeBytes, 1 + UsizeBytes + len)]
    ELSE [kind |-> "panic", msg |-> << >>]

\* read_result on buffer b once no further byte can arrive (or once enough
\* bytes are there): "ok", "err" with the message, "eof" for a short read,
\* "panic" for the unreachable!() arm.
read_result(b) ==
    IF ~HasBytes(b, 1) THEN [kind |-> "eof", msg |-> << >>]
    ELSE IF b[1] = 0 THEN [kind |-> "ok", msg |-> << >>]
    ELSE IF b[1] = 1 THEN
        IF ~HasBytes(b, 1 + UsizeBytes) THEN [kind |-> "eof", msg |-> << >>]
        ELSE LET len == from_le_bytes(SubSeq(b, 2, 1 + UsizeBytes))
             IN  IF ~HasBytes(b, 1 + UsizeBytes + len) THEN [kind |-> "eof", msg |-> << >>]
                 ELSE [kind |-> "err",
                       msg |-> SubSeq(b, 2 + UsizeBytes, 1 + UsizeBytes + len)]
    ELSE [kind |-> "panic", msg |-> << >>]

\* read_result has everything it needs to return without blocking.
read_result_ready(b) == read_result(b).kind # "eof"

\* --------------------------------------------------------- error messages
\* The errno text of a failing syscall: byte strings over a one-letter alphabet.
RECURSIVE ByteStrings(_)
ByteStrings(n) ==
    IF n = 0 THEN {<< >>}
    ELSE ByteStrings(n - 1) \cup {s \o <<69>> : s \in {t \in ByteStrings(n - 1) : Len(t) = n - 1}}
Causes == ByteStrings(MaxCauseLen)

\* The map_err prefix of each in-namespace step, abbreviated to two bytes:
\*   "Cannot setup mount namespace: " -> "Cm",  "Cannot setup hostname: " -> "Ch",
\*   "Cannot change directory: " -> "Cd",       "Cannot set current user: " -> "Cu",
\*   "Cannot enter cgroup namespace: " -> "Cc", "Cannot change work directory: " -> "Cw";
\* steps propagated with a bare `?` have no prefix.
InitPrefix(step) ==
    CASE step = "setup_mount_namespace" -> <<67, 109>>
      [] step = "sethostname" -> <<67, 104>>
      [] step = "chdir" -> <<67, 100>>
      [] step = "set_user" -> <<67, 117>>
      [] OTHER -> << >>

ExecPrefix(step) ==
    CASE step = "setns_cgroup" -> <<67, 99>>
      [] step = "chdir" -> <<67, 119>>
      [] OTHER -> << >>

\* ------------------------------------------------------------------- state
VARIABLES
    container,      \* [network_manager]: the Container's optional network plan
    containerPid,   \* Container.pid: the recorded init pid, NoPid for None
    procs,          \* process table: one record per pid
    nextPid,        \* next pid the kernel hands out
    call,           \* the caller's position inside a start call
    ret,            \* what the last start call returned
    fds,            \* for each descriptor kind, the processes holding it open
    buf,            \* bytes buffered in each pipe
    cgroupDirs,     \* cgroup directories that exist
    handles,        \* pids of the InitProcess / Process values the caller holds
    ncalls,         \* start calls made so far
    sio,            \* descriptor tables of one launch, by descriptor number
    wire,           \* one result frame travelling over a pipe
    guards,         \* OwnedPid values and the children they guard
    life,           \* the Container value: state directory, kill/destroy/drop
    mgr,            \* one Manager::new call on a user mapper
    task,           \* one run_as_user / RootFnTask call
    ctl,            \* one cgroup directory's cgroup.subtree_control file
    cred,           \* the in-namespace block of one init child, step by step
    flow,           \* the control flow of one cloned or forked process
    ends,           \* the pipe ends of one launch or run_as_user call, by holder
    mnt,            \* the mount table of one setup_mount_namespace call
    subid,          \* one BinNewIdMapper::new_root_subid call and its subid files
    store           \* the directories of one Manager and its create_container calls

\* The launch state machine's variables, and the component models' variables.
launchVars == <<container, containerPid, procs, nextPid, call, ret, fds, buf,
                cgroupDirs, handles, ncalls>>
side == <<sio, wire, guards, life, mgr, task, ctl, cred, flow, ends, mnt, subid, store>>
vars == <<launchVars, side>>

FdKinds == {"go_rx", "go_tx", "res_rx", "res_tx", "pid_rx", "pid_tx",
            "in_rx", "in_tx", "dev_null", "cgroup_file", "pidfd"}
PipeNames == {"go", "res", "pid", "in"}

Running == [tag |-> "Running", code |-> 0]
Exited(c) == [tag |-> "Exited", code |-> c]
Signaled == [tag |-> "Signaled", code |-> 9]

NoResult == [ok |-> TRUE, msg |-> << >>]

\* A free slot of the process table.
FreeProc ==
    [role |-> "none", pc |-> "none", ppid |-> NoPid, by |-> NoPid, cgroup |-> << >>,
     leaf |-> << >>,
     status |-> Running, mapped |-> FALSE, done |-> {},
     frame |-> "none", res |-> NoResult, net |-> FALSE, execd |-> FALSE]

\* A process that waitpid has reaped: the kernel keeps nothing of it.
ReapedProc == [FreeProc EXCEPT !.role = "reaped", !.pc = "reaped"]

NoError == [kind |-> "none", at |-> "none", msg |-> << >>]
Err(kind, at, msg) == [kind |-> kind, at |-> at, msg |-> msg]

\* The options of a start call that matter here: .user() and .cgroup().
NoReq == [user |-> << >>, name |-> << >>]
Req(user, name) == [user |-> user, name |-> name]

IdleCall ==
    [op |-> "idle", pc |-> "idle", child |-> NoPid, sibling |-> NoPid,
     leaf |-> << >>, net |-> FALSE, err |-> NoError, req |-> NoReq,
     childStatus |-> Running]

\* No call has returned since the last one began.
NoRet == [op |-> "none", status |-> "none", pid |-> NoPid, child |-> NoPid,
          sibling |-> NoPid, err |-> NoError, leaf |-> << >>, req |-> NoReq,
          snap |-> FreeProc, childStatus |-> Running, siblingStatus |-> Running]

\* A component model that takes no part in the behaviour at hand.
Off == [pc |-> "off"]

\* Every component other than the launch state machine is switched off.
SideOff(except) ==
    /\ "sio" \in except \/ sio = Off
    /\ "wire" \in except \/ wire = Off
    /\ "guards" \in except \/ guards = Off
    /\ "life" \in except \/ life = Off
    /\ "mgr" \in except \/ mgr = Off
    /\ "task" \in except \/ task = Off
    /\ "ctl" \in except \/ ctl = Off
    /\ "cred" \in except \/ cred = Off
    /\ "flow" \in except \/ flow = Off
    /\ "ends" \in except \/ ends = Off
    /\ "mnt" \in except \/ mnt = Off
    /\ "subid" \in except \/ subid = Off
    /\ "store" \in except \/ store = Off

\* The launch state machine before any start call, for a given container.
LaunchInit(c) ==
    /\ container = c
    /\ containerPid = NoPid
    /\ procs = [p \in Pids |-> FreeProc]
    /\ nextPid = 1
    /\ call = IdleCall
    /\ ret = NoRet
    /\ fds = [k \in FdKinds |-> {}]
    /\ buf = [n \in PipeNames |-> << >>]
    /\ cgroupDirs = {ContainerCgroup}
    /\ handles = {}
    /\ ncalls = 0

Init ==
    /\ \E c \in [network_manager : BOOLEAN] : LaunchInit(c)
    /\ SideOff({})

\* The caller is not inside Container::kill, destroy or the container's Drop.
CallerFree == IF life.pc = "off" THEN TRUE ELSE life.op = "none"
\* The Container value exists: destroy and drop consume it.
ContainerAlive == IF life.pc = "off" THEN TRUE ELSE life.alive

\* ------------------------------------------------------------ descriptors
\* Close every descriptor process h holds (exit, or exec of close-on-exec fds).
CloseAll(f, h) == [k \in FdKinds |-> f[k] \ {h}]
Close(f, kinds, h) == [k \in FdKinds |-> IF k \in kinds THEN f[k] \ {h} ELSE f[k]]
\* clone3/fork/spawn: the child c gets a copy of every descriptor of parent h.
Inherit(f, h, c) == [k \in FdKinds |-> IF h \in f[k] THEN f[k] \cup {c} ELSE f[k]]
Open(f, kinds, h) == [k \in FdKinds |-> IF k \in kinds THEN f[k] \cup {h} ELSE f[k]]

\* exit_child: _exit(0) for Ok, _exit(1) for Err.
exit_child(ok) == IF ok THEN Exited(0) ELSE Exited(1)
\* Faulty variant of exit_after_catch_unwind: the branch ends without _exit
\* and control falls out of the match into the code after clone3.
exit_after_catch_unwind_missing == [tag |-> "Returned", code |-> 0]

\* The _exit(2) that follows catch_unwind.
exit_after_catch_unwind == Exited(2)

\* The process ends: its descriptors are closed and it becomes a zombie.
Terminate(p, st) ==
    /\ procs' = [procs EXCEPT ![p].pc = "exited", ![p].status = st]
    /\ fds' = CloseAll(fds, p)

\* After clone3 the parent closes the cgroup fd and stdio and selects its pipe
\* ends (child_pipe.rx(), pipe.tx()); the child drops the cgroup fd and
\* selects the opposite ends (pipe.rx(), child_pipe.tx()).  Neither side makes
\* a blocking call in between, so these are part of the clone step.
ParentSetupPipes(f) == Close(f, {"cgroup_file", "dev_null", "res_tx", "go_rx"}, Caller)
InitChildStart(f, p) == Close(f, {"cgroup_file", "go_tx", "res_rx"}, p)

\* ------------------------------------------------------- start: preflight
\* Faulty variant of Preflight: the gid is checked before the uid.
Preflight_gid_first(user, name) ==
    IF ~is_id_mapped(user_mapper.gid_map, user[2])
        THEN Err("precondition", "gid", << >>)
    ELSE IF ~is_id_mapped(user_mapper.uid_map, user[1])
        THEN Err("precondition", "uid", << >>)
    ELSE IF ~is_empty(name) /\ is_absolute(name)
        THEN Err("misuse", "cgroup_child", << >>)
    ELSE NoError

\* The checks InitProcessOptions::start and ProcessOptions::start make before
\* anything is created: uid, then gid, then Cgroup::child's absolute-name test.
Preflight(user, name) ==
    IF ~is_id_mapped(user_mapper.uid_map, user[1])
        THEN Err("precondition", "uid", << >>)
    ELSE IF ~is_id_mapped(user_mapper.gid_map, user[2])
        THEN Err("precondition", "gid", << >>)
    ELSE IF ~is_empty(name) /\ is_absolute(name)
        THEN Err("misuse", "cgroup_child", << >>)
    ELSE NoError

\* Host-side steps of start that can fail before clone3/fork, in code order.
InitHostSteps == {"create", "dev_null", "cgroup_open", "new_pipe", "clone3"}
ExecHostSteps == {"create", "dev_null", "new_pipe", "fork"}

\* Cgroup::create ran (create_dir_all succeeded): a name was given and the
\* failure, if any, is at a later step.
CreatesLeaf(name, fail) == ~is_empty(name) /\ fail # "create"

\* The leaf cgroup a name denotes: container.cgroup.child(name).
Leaf(name) == IF is_empty(name) THEN << >> ELSE join(ContainerCgroup, name)

\* A start call that fails before any process exists.
ReturnEarly(op, err, req) ==
    /\ ret' = [NoRet EXCEPT !.op = op, !.status = "Err", !.err = err, !.req = req]
    /\ call' = IdleCall

\* What a launched process did inside start: its steps, frame, mapping and
\* cgroup.  Where it has got to since is in procs.
Snapshot(r) == [r EXCEPT !.pc = "none", !.status = Running, !.execd = FALSE]

\* A start call returns after it created processes; snap is the record of the
\* launched process (init child or grandchild) at that moment, childStatus and
\* siblingStatus the wait statuses the call collected (Running: none).
Return(op, status, pid, err, snap, childStatus, siblingStatus) ==
    /\ ret' = [op |-> op, status |-> status, pid |-> pid, child |-> call.child,
               sibling |-> call.sibling, err |-> err, leaf |-> call.leaf,
               req |-> call.req,
               snap |-> Snapshot(snap), childStatus |-> childStatus,
               siblingStatus |-> siblingStatus]
    /\ call' = IdleCall

\* ------------------------------------------------------ init launch: host
\* Faulty variant of already_started: the recorded pid is never consulted.
already_started_unchecked == FALSE

\* Container::start: `if self.pid.is_some()`.
already_started == containerPid # NoPid

\* Container::start's guard, then InitProcessOptions::start up to clone3.
InitStart ==
    /\ call.op = "idle" /\ CallerFree /\ ContainerAlive
    /\ ncalls < MaxCalls
    /\ ncalls' = ncalls + 1
    /\ \E user \in UserChoices, name \in CgroupNames, stdio_all \in BOOLEAN,
          fail \in {"none"} \cup InitHostSteps :
        IF already_started THEN
            /\ ReturnEarly("init", Err("misuse", "already_started", << >>),
                           Req(user, name))
            /\ UNCHANGED <<procs, nextPid, fds, buf, cgroupDirs>>
        ELSE IF Preflight(user, name) # NoError THEN
            /\ ReturnEarly("init", Preflight(user, name), Req(user, name))
            /\ UNCHANGED <<procs, nextPid, fds, buf, cgroupDirs>>
        ELSE
            /\ fail = "create" => ~is_empty(name)
            /\ fail = "dev_null" => ~stdio_all
            /\ cgroupDirs' = IF CreatesLeaf(name, fail)
                                THEN cgroupDirs \cup {Leaf(name)} ELSE cgroupDirs
            /\ IF fail # "none" THEN
                   /\ ReturnEarly("init", Err("host", fail, << >>), Req(user, name))
                   /\ UNCHANGED <<procs, nextPid, fds, buf>>
               ELSE
                   /\ procs' = [procs EXCEPT ![nextPid] =
                          [FreeProc EXCEPT !.role = "init", !.pc = "read_ok",
                                           !.ppid = Caller, !.by = Caller,
                                           !.cgroup = ContainerCgroup,
                                           !.leaf = Leaf(name),
                                           !.net = container.network_manager]]
                   /\ nextPid' = nextPid + 1
                   /\ fds' = ParentSetupPipes(InitChildStart(Inherit(
                          Open(fds, {"go_rx", "go_tx", "res_rx", "res_tx", "cgroup_file"}
                                    \cup (IF stdio_all THEN {} ELSE {"dev_null"}), Caller),
                          Caller, nextPid), nextPid))
                   /\ buf' = [buf EXCEPT !["go"] = << >>, !["res"] = << >>]
                   /\ call' = [IdleCall EXCEPT !.op = "init", !.pc = "run_map_user",
                                               !.child = nextPid, !.leaf = Leaf(name),
                                               !.req = Req(user, name)]
                   /\ ret' = NoRet
    /\ UNCHANGED <<side, container, containerPid, handles>>

\* Faulty variant of DropLocals: the go-pipe writer stays open across the wait.
DropLocals_keep_tx(f) == Close(CloseAll(f, Helper), {"res_rx"}, Caller)

\* What the parent's locals release when start returns early with `?`, before
\* the OwnedPid is dropped: the network handle (helper killed and reaped), the
\* go-pipe writer and the result-pipe reader.
DropLocals(f) == Close(CloseAll(f, Helper), {"go_tx", "res_rx"}, Caller)

\* `?` in the parent branch: locals are dropped, then the OwnedPid waits.
ParentFail(f, err) ==
    /\ fds' = DropLocals(f)
    /\ call' = [call EXCEPT !.pc = "reap", !.err = err, !.net = FALSE]

\* user_mapper.run_map_user(child)?
ParentMapUser ==
    /\ call.op = "init" /\ call.pc = "run_map_user"
    /\ \E ok \in BOOLEAN :
        IF ok THEN
            /\ procs' = [procs EXCEPT ![call.child].mapped = TRUE]
            /\ call' = [call EXCEPT !.pc = "add_process"]
            /\ UNCHANGED fds
        ELSE
            /\ ParentFail(fds, Err("host", "run_map_user", << >>))
            /\ UNCHANGED procs
    /\ UNCHANGED <<side, container, containerPid, nextPid, ret, buf, cgroupDirs, handles,
                   ncalls>>

\* if let Some(cgroup) = cgroup { cgroup.add_process(child)? }
ParentAddProcess ==
    /\ call.op = "init" /\ call.pc = "add_process"
    /\ \E ok \in BOOLEAN :
        IF is_empty(call.leaf) \/ ok THEN
            /\ procs' = IF is_empty(call.leaf) THEN procs
                         ELSE [procs EXCEPT ![call.child].cgroup = call.leaf]
            /\ call' = [call EXCEPT !.pc = "run_network"]
            /\ UNCHANGED fds
        ELSE
            /\ ParentFail(fds, Err("host", "add_process", << >>))
            /\ UNCHANGED procs
    /\ UNCHANGED <<side, container, containerPid, nextPid, ret, buf, cgroupDirs, handles,
                   ncalls>>

\* Faulty variant of ParentRunNetwork: a failed network start is not noticed
\* and the go byte is sent all the same.
ParentRunNetwork_unchecked ==
    /\ call.op = "init" /\ call.pc = "run_network"
    /\ \E ok \in BOOLEAN :
        IF ~container.network_manager THEN
            /\ call' = [call EXCEPT !.pc = "write_ok"]
            /\ UNCHANGED fds
        ELSE IF ok THEN
            /\ call' = [call EXCEPT !.pc = "write_ok", !.net = TRUE]
            /\ fds' = Inherit(fds, Caller, Helper)
        ELSE
            /\ call' = [call EXCEPT !.pc = "write_ok",
                                    !.err = Err("host", "run_network", << >>)]
            /\ UNCHANGED fds
    /\ UNCHANGED <<side, container, containerPid, procs, nextPid, ret, buf, cgroupDirs,
                   handles, ncalls>>

\* match &container.network_manager { Some(v) => v.run_network(child)?, None => None }
\* The helper is spawned by fork+exec and inherits the caller's descriptors.
ParentRunNetwork ==
    /\ call.op = "init" /\ call.pc = "run_network"
    /\ \E ok \in BOOLEAN :
        IF ~container.network_manager THEN
            /\ call' = [call EXCEPT !.pc = "write_ok"]
            /\ UNCHANGED fds
        ELSE IF ok THEN
            /\ call' = [call EXCEPT !.pc = "write_ok", !.net = TRUE]
            /\ fds' = Inherit(fds, Caller, Helper)
        ELSE ParentFail(fds, Err("host", "run_network", << >>))
    /\ UNCHANGED <<side, container, containerPid, procs, nextPid, ret, buf, cgroupDirs,
                   handles, ncalls>>

\* write_ok(tx)?: one byte on the go pipe; EPIPE when no reader is left.
\* tx is moved into write_ok and closed when it returns.
ParentWriteOk ==
    /\ call.op = "init" /\ call.pc = "write_ok"
    /\ IF fds["go_rx"] = {} THEN
           /\ ParentFail(fds, Err("host", "write_ok", << >>))
           /\ UNCHANGED buf
       ELSE
           /\ buf' = [buf EXCEPT !["go"] = @ \o <<0>>]
           /\ fds' = Close(fds, {"go_tx"}, Caller)
           /\ call' = [call EXCEPT !.pc = "read_result"]
    /\ UNCHANGED <<side, container, containerPid, procs, nextPid, ret, cgroupDirs, handles,
                   ncalls>>

\* The error read_result(rx)?? turns a frame (or its absence) into.
ResultError(r) ==
    CASE r.kind = "err" -> Err("child", "read_result", r.msg)
      [] r.kind = "eof" -> Err("transport", "read_result", << >>)
      [] r.kind = "panic" -> Err("panic", "read_result", << >>)
      [] OTHER -> NoError

\* read_result(rx)??, then Ok(InitProcess { pid: child.into_raw(), .. });
\* Container::start records the pid.
ParentReadResult ==
    /\ call.op = "init" /\ call.pc = "read_result"
    /\ read_result_ready(buf["res"]) \/ fds["res_tx"] = {}
    /\ LET r == read_result(buf["res"]) IN
        IF r.kind = "ok" THEN
            /\ Return("init", "Ok", call.child, NoError, procs[call.child], Running,
                      Running)
            /\ fds' = Close(fds, {"res_rx"}, Caller)
            /\ containerPid' = call.child
            /\ handles' = handles \cup {call.child}
        ELSE
            /\ ParentFail(fds, ResultError(r))
            /\ UNCHANGED <<ret, containerPid, handles>>
    /\ buf' = [buf EXCEPT !["res"] = << >>]
    /\ UNCHANGED <<side, container, procs, nextPid, cgroupDirs, ncalls>>

\* impl Drop for OwnedPid: waitpid(child, __WALL) blocks until the child exits.
ParentReap ==
    /\ call.op = "init" /\ call.pc = "reap"
    /\ procs[call.child].status # Running
    /\ procs' = [procs EXCEPT ![call.child] = ReapedProc]
    /\ Return("init", IF call.err.kind = "panic" THEN "Panic" ELSE "Err", NoPid,
              call.err, procs[call.child], procs[call.child].status, Running)
    /\ buf' = [buf EXCEPT !["go"] = << >>]
    /\ UNCHANGED <<side, container, containerPid, nextPid, fds, cgroupDirs, handles, ncalls>>

\* ------------------------------------------------- in-namespace child side
\* The block inside write_result, in code order.
InitSteps == <<"setup_mount_namespace", "sethostname", "set_network", "stdio",
               "close_exec_from", "chdir", "set_user">>
ExecSteps == <<"setns_cgroup", "stdio", "close_exec_from", "chdir", "set_user">>

StepIndex(steps, s) == CHOOSE i \in 1..Len(steps) : steps[i] = s

\* `if let Some(v) = &container.network_manager` guards set_network.
Applies(s, net) == s # "set_network" \/ net

\* The steps a process with network flag net runs.
StepSet(steps, net) == {steps[i] : i \in {j \in 1..Len(steps) : Applies(steps[j], net)}}

\* The step after s, or "write_result" when the block is finished.
NextStep(steps, s, net) ==
    LET later == {i \in 1..Len(steps) : i > StepIndex(steps, s) /\ Applies(steps[i], net)}
    IN  IF later = {} THEN "write_result"
        ELSE steps[CHOOSE i \in later : \A j \in later : i <= j]

IsInit(p) == procs[p].role = "init"
IsGrand(p) == procs[p].role = "grand"
Steps(p) == IF IsInit(p) THEN InitSteps ELSE ExecSteps
Prefix(p, s) == IF IsInit(p) THEN InitPrefix(s) ELSE ExecPrefix(s)
ResultPipe(p) == IF IsInit(p) THEN "res" ELSE "in"
ResultTx(p) == IF IsInit(p) THEN "res_tx" ELSE "in_tx"

\* How an Err leaving the child's closure ends the process: the init child's
\* closure is wrapped in exit_child; the exec grandchild's is not, and falls
\* through catch_unwind to _exit(2).
ChildErrExit(p) == IF IsInit(p) THEN exit_child(FALSE) ELSE exit_after_catch_unwind

\* Faulty variant of InitChildReadOk: the child does not wait for the go byte.
InitChildReadOk_unblocked(p) ==
    /\ IsInit(p) /\ procs[p].pc = "read_ok" /\ procs[p].status = Running
    /\ buf' = [buf EXCEPT !["go"] = Drop(@, 1)]
    /\ procs' = [procs EXCEPT ![p].pc = InitSteps[1]]
    /\ UNCHANGED <<side, container, containerPid, nextPid, call, ret, fds, cgroupDirs,
                   handles, ncalls>>

\* read_ok(rx)?: blocks for one byte; end of file is an error, and the child
\* leaves through exit_child without having written a frame.
InitChildReadOk(p) ==
    /\ IsInit(p) /\ procs[p].pc = "read_ok" /\ procs[p].status = Running
    /\ IF HasBytes(buf["go"], 1) THEN
           /\ buf' = [buf EXCEPT !["go"] = Drop(@, 1)]
           /\ procs' = [procs EXCEPT ![p].pc = InitSteps[1]]
           /\ UNCHANGED fds
       ELSE
           /\ fds["go_tx"] = {}
           /\ Terminate(p, exit_child(FALSE))
           /\ UNCHANGED buf
    /\ UNCHANGED <<side, container, containerPid, nextPid, call, ret, cgroupDirs, handles,
                   ncalls>>

\* One step of the block inside write_result: it succeeds, or fails with an
\* error whose text is the step's map_err prefix followed by the errno text.
ChildSetupStep(p) ==
    /\ procs[p].role \in {"init", "grand"} /\ procs[p].status = Running
    /\ \E i \in 1..Len(Steps(p)) : Steps(p)[i] = procs[p].pc
    /\ LET s == procs[p].pc IN
       \E ok \in BOOLEAN, cause \in Causes :
        IF ok THEN
            /\ cause = << >>
            /\ procs' = [procs EXCEPT ![p].done = @ \cup {s},
                                      ![p].pc = NextStep(Steps(p), s, procs[p].net)]
        ELSE
            procs' = [procs EXCEPT ![p].pc = "write_result",
                          ![p].res = [ok |-> FALSE, msg |-> Prefix(p, s) \o cause]]
    /\ UNCHANGED <<side, container, containerPid, nextPid, call, ret, fds, buf, cgroupDirs,
                   handles, ncalls>>

\* write_result(tx, block())??: the frame goes on the pipe and tx is closed;
\* an Err result then leaves the closure.
ChildWriteResult(p) ==
    /\ procs[p].role \in {"init", "grand"} /\ procs[p].status = Running
    /\ procs[p].pc = "write_result"
    /\ buf' = [buf EXCEPT ![ResultPipe(p)] = @ \o result_frame(procs[p].res)]
    /\ fds' = Close(fds, {ResultTx(p)}, p)
    /\ procs' = IF procs[p].res.ok
                   THEN [procs EXCEPT ![p].pc = "cstring", ![p].frame = "ok"]
                   ELSE [procs EXCEPT ![p].pc = "exit", ![p].frame = "err"]
    /\ UNCHANGED <<side, container, containerPid, nextPid, call, ret, cgroupDirs, handles,
                   ncalls>>

\* CString::new over command and environ: a NUL byte is an Err; an empty
\* command makes command[0] panic, which catch_unwind turns into _exit(2).
\* The command is an input of start that nothing earlier reads, so it is
\* drawn here.
ChildCString(p) ==
    /\ procs[p].role \in {"init", "grand"} /\ procs[p].status = Running
    /\ procs[p].pc = "cstring"
    /\ \E cmd \in Commands :
        CASE cmd = "valid" ->
                 /\ procs' = [procs EXCEPT ![p].pc = "execvpe"]
                 /\ UNCHANGED fds
          [] cmd = "nul" -> Terminate(p, ChildErrExit(p))
          [] OTHER -> Terminate(p, exit_after_catch_unwind)
    /\ UNCHANGED <<side, container, containerPid, nextPid, call, ret, buf, cgroupDirs,
                   handles, ncalls>>

\* close_exec_from(3) marks every descriptor from 3 up close-on-exec, so a
\* successful exec closes every descriptor tracked here (none is 0, 1 or 2).
close_exec_from(f, p) == CloseAll(f, p)

\* execvpe: on success the payload replaces the image and the close-on-exec
\* descriptors are closed; on failure the Err leaves the closure.
ChildExec(p) ==
    /\ procs[p].role \in {"init", "grand"} /\ procs[p].status = Running
    /\ procs[p].pc = "execvpe"
    /\ \E ok \in BOOLEAN :
        IF ok THEN
            /\ procs' = [procs EXCEPT ![p].pc = "payload", ![p].execd = TRUE]
            /\ fds' = close_exec_from(fds, p)
        ELSE Terminate(p, ChildErrExit(p))
    /\ UNCHANGED <<side, container, containerPid, nextPid, call, ret, buf, cgroupDirs,
                   handles, ncalls>>

\* The Err of the block, now on the pipe, leaves the closure: _exit.
ChildExit(p) ==
    /\ procs[p].pc = "exit" /\ procs[p].status = Running
    /\ Terminate(p, ChildErrExit(p))
    /\ UNCHANGED <<side, container, containerPid, nextPid, call, ret, buf, cgroupDirs,
                   handles, ncalls>>

\* Processes of the container's pid namespace other than its init.
Members == {q \in Pids : procs[q].role = "grand" /\ procs[q].status = Running}

\* The end of the namespace's init kills every other member (SIGKILL).
InitGone(pt, f, p) ==
    IF pt[p].role = "init"
        THEN [k \in FdKinds |-> f[k] \ Members]
        ELSE f

KillMembers(pt, p) ==
    IF procs[p].role = "init"
        THEN [q \in Pids |-> IF q \in Members
                                THEN [pt[q] EXCEPT !.pc = "exited", !.status = Signaled]
                                ELSE pt[q]]
        ELSE pt

\* SIGKILL from outside (cgroup.kill, the OOM killer) while the child is still
\* inside start.  The host side sees a kill only as EPIPE on the go pipe or as
\* end of file on the result pipe, so the kill is taken at the two points that
\* produce them: blocked in read_ok, and at the first step of the block.
KillPoints == {"read_ok", InitSteps[1], ExecSteps[1]}

ChildKilled(p) ==
    /\ procs[p].role \in {"init", "grand"} /\ procs[p].status = Running
    /\ procs[p].pc \in KillPoints
    /\ procs' = KillMembers([procs EXCEPT ![p].pc = "exited", ![p].status = Signaled], p)
    /\ fds' = InitGone(procs, CloseAll(fds, p), p)
    /\ UNCHANGED <<side, container, containerPid, nextPid, call, ret, buf, cgroupDirs,
                   handles, ncalls>>

\* The payload runs and ends with some exit status.
PayloadCodes == {0, 1}

PayloadExit(p) ==
    /\ procs[p].pc = "payload" /\ procs[p].status = Running
    /\ \E c \in PayloadCodes :
        procs' = KillMembers([procs EXCEPT ![p].pc = "exited", ![p].status = Exited(c)], p)
    /\ fds' = InitGone(procs, CloseAll(fds, p), p)
    /\ UNCHANGED <<side, container, containerPid, nextPid, call, ret, buf, cgroupDirs,
                   handles, ncalls>>

\* InitProcess::wait / Process::wait: waitpid(pid, __WALL) on a handle the
\* caller holds, between start calls.
Wait(p) ==
    /\ call.op = "idle" /\ CallerFree
    /\ p \in handles
    /\ procs[p].role # "reaped" /\ procs[p].status # Running
    /\ procs' = [procs EXCEPT ![p] = ReapedProc]
    /\ UNCHANGED <<side, container, containerPid, nextPid, call, ret, fds, buf, cgroupDirs,
                   handles, ncalls>>

\* ------------------------------------------------------ exec launch: host
\* The process-table row of a pid, free for a pid the kernel never gave out.
Proc(p) == IF p \in Pids THEN procs[p] ELSE FreeProc

\* Faulty variant of OuterSetupPipes: the outer parent keeps pid_pipe's writer.
OuterSetupPipes_keep_tx(f) == Close(f, {"dev_null"}, Caller)

\* Faulty variant of GrandStart: the cgroup directory stays open.
GrandStart_keep_cgroup(f, p) == Close(f, {"pid_tx", "in_rx"}, p)

\* After fork the outer parent drops stdio and selects pid_pipe.rx(); after
\* clone3 the grandchild drops the cgroup fd and pid_tx and selects pipe.tx().
OuterSetupPipes(f) == Close(f, {"dev_null", "pid_tx"}, Caller)
GrandStart(f, p) == Close(f, {"cgroup_file", "pid_tx", "in_rx"}, p)

\* ProcessOptions::start up to fork(); it takes &InitProcess, so the caller
\* holds the init handle.
ExecStart ==
    /\ call.op = "idle" /\ CallerFree /\ ContainerAlive
    /\ ncalls < MaxCalls
    /\ containerPid # NoPid /\ containerPid \in handles
    /\ ncalls' = ncalls + 1
    /\ \E user \in UserChoices, name \in CgroupNames, stdio_all \in BOOLEAN,
          fail \in {"none"} \cup ExecHostSteps :
        IF Preflight(user, name) # NoError THEN
            /\ ReturnEarly("exec", Preflight(user, name), Req(user, name))
            /\ UNCHANGED <<procs, nextPid, fds, buf, cgroupDirs>>
        ELSE
            /\ fail = "create" => ~is_empty(name)
            /\ fail = "dev_null" => ~stdio_all
            /\ cgroupDirs' = IF CreatesLeaf(name, fail)
                                THEN cgroupDirs \cup {Leaf(name)} ELSE cgroupDirs
            /\ IF fail # "none" THEN
                   /\ ReturnEarly("exec", Err("host", fail, << >>), Req(user, name))
                   /\ UNCHANGED <<procs, nextPid, fds, buf>>
               ELSE
                   /\ procs' = [procs EXCEPT ![nextPid] =
                          [FreeProc EXCEPT !.role = "mid", !.pc = "start",
                                           !.ppid = Caller, !.by = Caller,
                                           !.cgroup = HostCgroup]]
                   /\ nextPid' = nextPid + 1
                   /\ fds' = OuterSetupPipes(Inherit(
                          Open(fds, {"pid_rx", "pid_tx"}
                                    \cup (IF stdio_all THEN {} ELSE {"dev_null"}), Caller),
                          Caller, nextPid))
                   /\ buf' = [buf EXCEPT !["pid"] = << >>, !["in"] = << >>]
                   /\ call' = [IdleCall EXCEPT !.op = "exec", !.pc = "read_pid",
                                               !.child = nextPid, !.leaf = Leaf(name),
                                               !.req = Req(user, name)]
                   /\ ret' = NoRet
    /\ UNCHANGED <<side, container, containerPid, handles>>

\* read_pid(rx)?: four little-endian bytes, or an error at end of file; rx is
\* closed either way.  On error the child OwnedPid is dropped.
OuterReadPid ==
    /\ call.op = "exec" /\ call.pc = "read_pid"
    /\ HasBytes(buf["pid"], PidBytes) \/ fds["pid_tx"] = {}
    /\ call' = IF HasBytes(buf["pid"], PidBytes)
                  THEN [call EXCEPT !.pc = "wait_success",
                                    !.sibling = from_le_bytes(Take(buf["pid"], PidBytes))]
                  ELSE [call EXCEPT !.pc = "reap_child",
                                    !.err = Err("transport", "read_pid", << >>)]
    /\ buf' = [buf EXCEPT !["pid"] = << >>]
    /\ fds' = Close(fds, {"pid_rx"}, Caller)
    /\ UNCHANGED <<side, container, containerPid, procs, nextPid, ret, cgroupDirs, handles,
                   ncalls>>

\* OwnedPid::wait_success on a wait status.
wait_success(st) == st = Exited(0)

\* child.wait_success()?: waitpid on the intermediate; Exited(0) gives
\* Ok(Process { pid: sibling.into_raw() }), anything else is an Err and the
\* sibling OwnedPid is dropped.
OuterWaitSuccess ==
    /\ call.op = "exec" /\ call.pc = "wait_success"
    /\ procs[call.child].status # Running
    /\ procs' = [procs EXCEPT ![call.child] = ReapedProc]
    /\ IF wait_success(procs[call.child].status) THEN
           /\ Return("exec", "Ok", call.sibling, NoError, Proc(call.sibling),
                     procs[call.child].status, Running)
           /\ handles' = handles \cup {call.sibling}
       ELSE
           /\ call' = [call EXCEPT !.pc = "reap_sibling",
                                   !.err = Err("child", "wait_success", << >>),
                                   !.childStatus = procs[call.child].status]
           /\ UNCHANGED <<ret, handles>>
    /\ UNCHANGED <<side, container, containerPid, nextPid, fds, buf, cgroupDirs, ncalls>>

\* impl Drop for OwnedPid on the sibling: waitpid blocks until it has exited.
OuterReapSibling ==
    /\ call.op = "exec" /\ call.pc = "reap_sibling"
    /\ call.sibling \in Pids
    /\ procs[call.sibling].status # Running
    /\ procs' = [procs EXCEPT ![call.sibling] = ReapedProc]
    /\ Return("exec", "Err", NoPid, call.err, procs[call.sibling], call.childStatus,
              procs[call.sibling].status)
    /\ UNCHANGED <<side, container, containerPid, nextPid, fds, buf, cgroupDirs, handles,
                   ncalls>>

\* impl Drop for OwnedPid on the intermediate, after read_pid failed.
OuterReapChild ==
    /\ call.op = "exec" /\ call.pc = "reap_child"
    /\ procs[call.child].status # Running
    /\ procs' = [procs EXCEPT ![call.child] = ReapedProc]
    /\ Return("exec", "Err", NoPid, call.err, FreeProc, procs[call.child].status,
              Running)
    /\ UNCHANGED <<side, container, containerPid, nextPid, fds, buf, cgroupDirs, handles,
                   ncalls>>

\* ---------------------------------------------- exec launch: intermediate
\* Steps of the intermediate that can fail before the grandchild exists.
MidSteps == {"cgroup_open", "pidfd_open", "setns", "new_pipe", "clone3"}

\* Faulty variants of the clone3 flags: CLONE_PARENT left out (the new process
\* is the intermediate's child); CLONE_INTO_CGROUP given the container cgroup.
clone_parent_unset(m) == m
clone_into_container_cgroup(leaf) == ContainerCgroup

\* clone3 flags of the intermediate: with CLONE_PARENT the new process is a
\* child of the intermediate's own parent.
clone_parent(m) == procs[m].ppid
\* With CLONE_INTO_CGROUP the new process starts in the opened cgroup: the
\* leaf when a name was given, else the container cgroup.
clone_into_cgroup(leaf) == IF is_empty(leaf) THEN ContainerCgroup ELSE leaf

\* The process the intermediate m cloned.
Kid(m) == CHOOSE q \in Pids : procs[q].by = m

\* pid_pipe.tx(); cgroup open; pidfd_open(init); setns; new_pipe; clone3.
\* Any Err leaves catch_unwind and ends in _exit(2).  pidfd_open/setns need a
\* live init process.
MidClone(m) ==
    /\ procs[m].role = "mid" /\ procs[m].pc = "start"
    /\ \E fail \in {"none"} \cup MidSteps :
        /\ procs[containerPid].status # Running \/ procs[containerPid].role = "reaped"
              => fail \in {"pidfd_open", "setns"}
        /\ IF fail # "none" THEN
               /\ Terminate(m, exit_after_catch_unwind)
               /\ UNCHANGED nextPid
           ELSE
               /\ procs' = [procs EXCEPT
                      ![m].pc = "write_pid",
                      ![nextPid] = [FreeProc EXCEPT !.role = "grand", !.pc = ExecSteps[1],
                                        !.ppid = clone_parent(m), !.by = m,
                                        !.cgroup = clone_into_cgroup(call.leaf),
                                        !.leaf = call.leaf,
                                        !.mapped = TRUE]]
               /\ nextPid' = nextPid + 1
               /\ fds' = GrandStart(Inherit(
                      Open(Close(fds, {"pid_rx"}, m),
                           {"cgroup_file", "pidfd", "in_rx", "in_tx"}, m),
                      m, nextPid), nextPid)
    /\ UNCHANGED <<side, container, containerPid, call, ret, buf, cgroupDirs, handles, ncalls>>

\* drop stdio; write_pid(pid_tx, child)?; then pipe.rx() drops the writer.
MidWritePid(m) ==
    /\ procs[m].role = "mid" /\ procs[m].pc = "write_pid"
    /\ IF fds["pid_rx"] = {} THEN
           /\ Terminate(m, exit_child(FALSE))
           /\ UNCHANGED buf
       ELSE
           /\ buf' = [buf EXCEPT !["pid"] = @ \o pid_frame(Kid(m))]
           /\ fds' = Close(fds, {"dev_null", "pid_tx", "in_tx"}, m)
           /\ procs' = [procs EXCEPT ![m].pc = "read_result"]
    /\ UNCHANGED <<side, container, containerPid, nextPid, call, ret, cgroupDirs, handles,
                   ncalls>>

\* Faulty variant of MidExit: the intermediate reports success whatever it read.
MidExit_always_ok(r) == exit_child(TRUE)

\* The status exit_child gives the intermediate for what read_result returned:
\* Ok(Ok) is _exit(0); Ok(Err) and Err are _exit(1); a panic is _exit(2).
MidExit(r) ==
    CASE r.kind = "ok" -> exit_child(TRUE)
      [] r.kind = "panic" -> exit_after_catch_unwind
      [] OTHER -> exit_child(FALSE)

\* exit_child(read_result(pipe.rx())?)
MidReadResult(m) ==
    /\ procs[m].role = "mid" /\ procs[m].pc = "read_result"
    /\ read_result_ready(buf["in"]) \/ fds["in_tx"] = {}
    /\ Terminate(m, MidExit(read_result(buf["in"])))
    /\ buf' = [buf EXCEPT !["in"] = << >>]
    /\ UNCHANGED <<side, container, containerPid, nextPid, call, ret, cgroupDirs,
                   handles, ncalls>>

\* ------------------------------------------------------------ next state
\* Steps of the calling process inside InitProcessOptions::start.
InitHostStep ==
    \/ InitStart
    \/ ParentMapUser
    \/ ParentAddProcess
    \/ ParentRunNetwork
    \/ ParentWriteOk
    \/ ParentReadResult
    \/ ParentReap

\* Steps of the calling process inside ProcessOptions::start.
ExecHostStep ==
    \/ ExecStart
    \/ OuterReadPid
    \/ OuterWaitSuccess
    \/ OuterReapSibling
    \/ OuterReapChild

\* Steps of a launched process up to its exec or _exit (the init child and the
\* exec grandchild share them; read_ok is the init child's alone).
LaunchStep(p) ==
    \/ InitChildReadOk(p)
    \/ ChildSetupStep(p)
    \/ ChildWriteResult(p)
    \/ ChildCString(p)
    \/ ChildExec(p)
    \/ ChildExit(p)

\* Steps of the intermediate process of an exec launch.
MidStep(p) ==
    \/ MidClone(p)
    \/ MidWritePid(p)
    \/ MidReadResult(p)

\* What the environment does: kills, payload exits, the caller's waits.
EnvStep ==
    \/ \E p \in Pids : ChildKilled(p)
    \/ \E p \in Pids : PayloadExit(p)
    \/ \E p \in Pids : Wait(p)

Next ==
    \/ InitHostStep
    \/ ExecHostStep
    \/ \E p \in Pids : LaunchStep(p)
    \/ \E p \in Pids : MidStep(p)
    \/ EnvStep

Spec == Init /\ [][Next]_vars

\* The init launch on its own.  An init launch gets as far as clone3 only
\* while no init pid is recorded, and ProcessOptions::start needs the handle a
\* successful init launch returns, so no exec-launch process exists while an
\* init launch is in progress.
InitNext ==
    \/ InitHostStep
    \/ \E p \in Pids : LaunchStep(p)
    \/ EnvStep

\* Every process that can take a step eventually takes one: the kernel
\* schedules each runnable process, and a start call, once entered, runs on.
\* Kills, payload exits and the caller's later calls are not forced.
FairInitSpec ==
    /\ Init
    /\ [][InitNext]_vars
    /\ WF_vars(InitHostStep /\ call.op # "idle")
    /\ \A p \in Pids : WF_vars(LaunchStep(p))

\* Both launches under the same scheduling: inside either start call the
\* caller runs on, and the intermediate and every launched process take
\* their steps.  Kills, payload exits and the caller's next call are not
\* forced.
FairExecSpec ==
    /\ Init
    /\ [][Next]_vars
    /\ WF_vars(InitHostStep /\ call.op # "idle")
    /\ WF_vars(ExecHostStep /\ call.op # "idle")
    /\ \A p \in Pids : WF_vars(LaunchStep(p))
    /\ \A p \in Pids : WF_vars(MidStep(p))

\* ------------------------------------------------ stdio descriptor tables
\* One launch seen through the numbered descriptor tables of the processes
\* that take part in it: the caller, the intermediate of an exec launch, the
\* launched process (init child or exec grandchild) and a helper program the
\* caller spawns (newuidmap, newgidmap, the network helper).  Pipe and cgroup
\* descriptors are opened while every stdio descriptor is still open and are
\* never the source of a dup2, so they are left out of the tables.

\* Highest descriptor number a process may hold (RLIMIT_NOFILE - 1).
MaxFd == 4
Fds == 0..MaxFd
\* Option<OwnedFd>::None.
NoFd == -1
Closed == "closed"
\* The open file the caller supplies for stdin, stdout, stderr; "null" is
\* /dev/null and "tty" whatever the caller's own descriptors 0..2 refer to.
SlotFile == <<"in", "out", "err">>
StdioFiles == {"in", "out", "err", "null"}
SioProcs == {"caller", "mid", "child", "helper"}

NoTable == [n \in Fds |-> Closed]

\* The stdio options: each slot unset or a descriptor number; an OwnedFd owns
\* its number, so no two slots share one.
StdioOptions ==
    {o \in [1..3 -> Fds \cup {NoFd}] :
        \A i, j \in 1..3 : i # j /\ o[i] # NoFd => o[i] # o[j]}

\* The caller's table when it builds the options: the supplied files at their
\* numbers; its own 0..2 open unless it runs detached from a terminal.
CallerTable(o, detached) ==
    [n \in Fds |->
        IF \E i \in 1..3 : o[i] = n THEN SlotFile[CHOOSE i \in 1..3 : o[i] = n]
        ELSE IF n <= 2 /\ ~detached THEN "tty"
        ELSE Closed]

\* open(2) returns the lowest free number, or fails when none is left.
LowestFree(t) ==
    IF \A n \in Fds : t[n] # Closed THEN NoFd
    ELSE CHOOSE n \in Fds : t[n] = Closed /\ \A m \in Fds : t[m] = Closed => n <= m

\* `if stdin.is_none() || stdout.is_none() || stderr.is_none()`
needs_dev_null(o) == \E i \in 1..3 : o[i] = NoFd

\* nix::fcntl::open("/dev/null", O_RDWR): the table with /dev/null at fd.
open_dev_null(t, fd) == [t EXCEPT ![fd] = "null"]

\* Faulty variant of drop_stdio: /dev/null stays open in the dropping process.
drop_stdio_keep_null(t, o, dn) ==
    [n \in Fds |-> IF \E i \in 1..3 : o[i] = n THEN Closed ELSE t[n]]

\* drop(stdin); drop(stdout); drop(stderr); drop(dev_null): each OwnedFd
\* closes its number.
drop_stdio(t, o, dn) ==
    [n \in Fds |-> IF n = dn \/ \E i \in 1..3 : o[i] = n THEN Closed ELSE t[n]]

\* stdin.as_ref().or(dev_null.as_ref()).unwrap().as_raw_fd()
or_dev_null(fd, dn) == IF fd # NoFd THEN fd ELSE dn

\* dup2(oldfd, newfd): newfd refers to oldfd's file; nothing happens when the
\* numbers are equal.  The copy has close-on-exec clear.
dup2(t, oldfd, newfd) == [t EXCEPT ![newfd] = t[oldfd]]
dup2_cloexec(cx, oldfd, newfd) == IF oldfd = newfd THEN cx ELSE cx \ {newfd}

\* The three dup2 calls of the stdio step, in code order.
setup_stdio(t, o, dn) ==
    dup2(dup2(dup2(t, or_dev_null(o[1], dn), 0), or_dev_null(o[2], dn), 1),
         or_dev_null(o[3], dn), 2)
setup_stdio_cloexec(cx, o, dn) ==
    dup2_cloexec(dup2_cloexec(dup2_cloexec(cx, or_dev_null(o[1], dn), 0),
                              or_dev_null(o[2], dn), 1),
                 or_dev_null(o[3], dn), 2)

\* close_exec_from(3): every open descriptor numbered 3 or more is marked
\* close-on-exec.
mark_cloexec_from(t, cx, low) == cx \cup {n \in Fds : n >= low /\ t[n] # Closed}

\* execve: close-on-exec descriptors are closed, the others stay.
exec_table(t, cx) == [n \in Fds |-> IF n \in cx THEN Closed ELSE t[n]]

\* A start call about to run, with its stdio options.
SioStartState(kind, o, detached, cloexec) ==
    [pc |-> "start", kind |-> kind, stdio |-> o, dev_null |-> NoFd,
     cpc |-> "none", mpc |-> "none", go |-> FALSE, frame |-> "none",
     ret |-> "none", after |-> << >>,
     tab |-> [p \in SioProcs |-> IF p = "caller" THEN CallerTable(o, detached)
                                  ELSE NoTable],
     cx |-> [p \in SioProcs |->
                IF p = "caller" /\ cloexec
                    THEN {n \in Fds : \E i \in 1..3 : o[i] = n} ELSE {}]]

SioInit ==
    /\ LaunchInit([network_manager |-> TRUE])
    /\ SideOff({"sio"})
    /\ \E kind \in {"init", "exec"}, o \in StdioOptions, detached \in BOOLEAN,
          cloexec \in BOOLEAN :
        sio = SioStartState(kind, o, detached, cloexec)

\* A process ends: every descriptor it holds is closed.
SioExit(s, p) == [s EXCEPT !.tab[p] = NoTable, !.cx[p] = {}]

\* start up to clone3/fork and the parent's drops that follow it.  A failing
\* step (dev_null open, cgroup open, new_pipe, clone3/fork) returns with `?`,
\* which drops the options and /dev/null.
SioStart ==
    /\ sio.pc = "start"
    /\ LET t == sio.tab["caller"]
           dn == IF needs_dev_null(sio.stdio) THEN LowestFree(t) ELSE NoFd
           opened == IF dn = NoFd THEN t ELSE open_dev_null(t, dn)
           new == IF sio.kind = "init" THEN "child" ELSE "mid"
       IN \E fail \in BOOLEAN :
           /\ needs_dev_null(sio.stdio) /\ dn = NoFd => fail
           /\ sio' = IF fail THEN
                         [sio EXCEPT !.pc = "done", !.ret = "Err", !.dev_null = dn,
                                     !.tab["caller"] = drop_stdio(opened, sio.stdio, dn)]
                     ELSE
                         [sio EXCEPT
                             !.pc = IF sio.kind = "init" THEN "helpers" ELSE "read_pid",
                             !.dev_null = dn,
                             !.cpc = IF sio.kind = "init" THEN "read_ok" ELSE "none",
                             !.mpc = IF sio.kind = "init" THEN "none" ELSE "clone3",
                             !.tab[new] = opened,
                             !.cx[new] = sio.cx["caller"],
                             !.tab["caller"] = drop_stdio(opened, sio.stdio, dn)]
    /\ UNCHANGED <<launchVars, wire, guards, life, mgr, task, ctl, cred, flow, ends, mnt, subid, store>>

\* Init launch, parent: run_map_user and run_network spawn helper programs
\* (fork + exec: the helper gets the caller's descriptors that are not
\* close-on-exec); then write_ok.  A failure returns with `?`: the go-pipe
\* writer is dropped and the OwnedPid waits for the child.
SioHelpers ==
    /\ sio.pc = "helpers"
    /\ \E ok \in BOOLEAN :
        sio' = [sio EXCEPT
                   !.tab["helper"] = exec_table(sio.tab["caller"], sio.cx["caller"]),
                   !.go = ok,
                   !.pc = IF ok THEN "read_result" ELSE "reap"]
    /\ UNCHANGED <<launchVars, wire, guards, life, mgr, task, ctl, cred, flow, ends, mnt, subid, store>>

\* Init child: read_ok(rx)? returns on the go byte, fails at end of file.
SioChildReadOk ==
    /\ sio.cpc = "read_ok"
    /\ sio.go \/ sio.pc = "reap"
    /\ sio' = IF sio.go THEN [sio EXCEPT !.cpc = "setup"]
              ELSE [SioExit(sio, "child") EXCEPT !.cpc = "exited"]
    /\ UNCHANGED <<launchVars, wire, guards, life, mgr, task, ctl, cred, flow, ends, mnt, subid, store>>

\* Launched process: the steps before stdio, then the three dup2 calls.  A
\* failing step writes the error frame and the process exits.
SioChildStdio ==
    /\ sio.cpc = "setup"
    /\ \E ok \in BOOLEAN :
        sio' = IF ok THEN
                   [sio EXCEPT
                       !.cpc = "close_exec_from",
                       !.tab["child"] = setup_stdio(@, sio.stdio, sio.dev_null),
                       !.cx["child"] = setup_stdio_cloexec(@, sio.stdio, sio.dev_null),
                       !.after = [n \in 1..3 |->
                                    setup_stdio(sio.tab["child"], sio.stdio,
                                                sio.dev_null)[n - 1]]]
               ELSE [SioExit(sio, "child") EXCEPT !.cpc = "exited", !.frame = "err"]
    /\ UNCHANGED <<launchVars, wire, guards, life, mgr, task, ctl, cred, flow, ends, mnt, subid, store>>

\* Launched process: close_exec_from(3), chdir, set_user, then the frame.
SioChildFinish ==
    /\ sio.cpc = "close_exec_from"
    /\ \E ok \in BOOLEAN :
        sio' = IF ok THEN
                   [sio EXCEPT
                       !.cpc = "execvpe", !.frame = "ok",
                       !.cx["child"] = mark_cloexec_from(sio.tab["child"], @, 3)]
               ELSE [SioExit(sio, "child") EXCEPT !.cpc = "exited", !.frame = "err"]
    /\ UNCHANGED <<launchVars, wire, guards, life, mgr, task, ctl, cred, flow, ends, mnt, subid, store>>

\* Launched process: execvpe replaces the image or fails and the process exits.
SioChildExec ==
    /\ sio.cpc = "execvpe"
    /\ \E ok \in BOOLEAN :
        sio' = IF ok THEN
                   [sio EXCEPT !.cpc = "payload",
                               !.tab["child"] = exec_table(@, sio.cx["child"]),
                               !.cx["child"] = {}]
               ELSE [SioExit(sio, "child") EXCEPT !.cpc = "exited"]
    /\ UNCHANGED <<launchVars, wire, guards, life, mgr, task, ctl, cred, flow, ends, mnt, subid, store>>

\* The payload ends.
SioPayloadExit ==
    /\ sio.cpc = "payload"
    /\ sio' = [SioExit(sio, "child") EXCEPT !.cpc = "exited"]
    /\ UNCHANGED <<launchVars, wire, guards, life, mgr, task, ctl, cred, flow, ends, mnt, subid, store>>

\* Exec launch, intermediate: clone3 gives the grandchild a copy of its table;
\* then it drops stdio and sends the pid.  A failure before clone3 ends in
\* _exit(2).
SioMidClone ==
    /\ sio.mpc = "clone3"
    /\ \E ok \in BOOLEAN :
        sio' = IF ok THEN
                   [sio EXCEPT
                       !.mpc = "read_result", !.cpc = "setup",
                       !.tab["child"] = sio.tab["mid"],
                       !.cx["child"] = sio.cx["mid"],
                       !.tab["mid"] = drop_stdio(@, sio.stdio, sio.dev_null)]
               ELSE [SioExit(sio, "mid") EXCEPT !.mpc = "exited"]
    /\ UNCHANGED <<launchVars, wire, guards, life, mgr, task, ctl, cred, flow, ends, mnt, subid, store>>

\* Exec launch, intermediate: exit_child(read_result(pipe.rx())?) once the
\* frame is there or the grandchild is gone.
SioMidExit ==
    /\ sio.mpc = "read_result"
    /\ sio.frame # "none" \/ sio.cpc = "exited"
    /\ sio' = [SioExit(sio, "mid") EXCEPT !.mpc = "exited"]
    /\ UNCHANGED <<launchVars, wire, guards, life, mgr, task, ctl, cred, flow, ends, mnt, subid, store>>

\* The start call returns: Ok on the success frame (init: read_result; exec:
\* the intermediate's exit status 0), else Err once the OwnedPid guards have
\* waited for the processes the call created.
SioReturn ==
    /\ \/ sio.pc = "read_result" /\ (sio.frame = "ok" \/ sio.cpc = "exited")
       \/ sio.pc = "reap" /\ sio.cpc = "exited"
       \/ /\ sio.pc = "read_pid" /\ sio.mpc = "exited"
          /\ sio.frame = "ok" \/ sio.cpc \in {"none", "exited"}
    /\ sio' = [sio EXCEPT !.pc = "done",
                          !.ret = IF sio.pc # "reap" /\ sio.frame = "ok"
                                     THEN "Ok" ELSE "Err"]
    /\ UNCHANGED <<launchVars, wire, guards, life, mgr, task, ctl, cred, flow, ends, mnt, subid, store>>

SioNext ==
    \/ SioStart
    \/ SioHelpers
    \/ SioChildReadOk
    \/ SioChildStdio
    \/ SioChildFinish
    \/ SioChildExec
    \/ SioPayloadExit
    \/ SioMidClone
    \/ SioMidExit
    \/ SioReturn

StdioSpec == SioInit /\ [][SioNext]_vars

\* ------------------------------------------------- result frame on a pipe
\* One write_result and one read_result on the two ends of a pipe.  The
\* writer makes the write_all calls of write_result one by one; bytes of a
\* later write on the same pipe may follow the frame.

\* Longest error message, in characters.
MaxMsgLen == 2
\* Code points a message is made of: NUL, "E", and a two-byte character.
MsgChars == {0, 69, 233}

RECURSIVE Strings(_)
Strings(n) ==
    IF n = 0 THEN {<< >>}
    ELSE Strings(n - 1) \cup
         {s \o <<c>> : s \in {t \in Strings(n - 1) : Len(t) = n - 1}, c \in MsgChars}

\* str.as_bytes(): the UTF-8 encoding (one byte below U+0080, two below U+0800).
RECURSIVE as_bytes(_)
as_bytes(str) ==
    IF Len(str) = 0 THEN << >>
    ELSE (IF str[1] < 128 THEN <<str[1]>>
          ELSE <<192 + (str[1] \div 64), 128 + (str[1] % 64)>>) \o as_bytes(Tail(str))

\* String::from_utf8: the decoded characters, or an error for bytes that are
\* not UTF-8 (a stray continuation byte, a truncated or over-long sequence).
RECURSIVE from_utf8(_)
from_utf8(bs) ==
    IF Len(bs) = 0 THEN [ok |-> TRUE, str |-> << >>]
    ELSE IF bs[1] < 128 THEN
        LET r == from_utf8(Tail(bs))
        IN  [ok |-> r.ok, str |-> <<bs[1]>> \o r.str]
    ELSE IF bs[1] >= 194 /\ bs[1] < 224 /\ Len(bs) >= 2 /\ bs[2] >= 128 /\ bs[2] < 192 THEN
        LET r == from_utf8(Drop(bs, 2))
        IN  [ok |-> r.ok, str |-> <<(bs[1] - 192) * 64 + (bs[2] - 128)>> \o r.str]
    ELSE [ok |-> FALSE, str |-> << >>]

\* Results a closure can hand to write_result: Ok(()) or Err with a message.
WireResults ==
    {[ok |-> TRUE, msg |-> << >>]} \cup {[ok |-> FALSE, msg |-> s] : s \in Strings(MaxMsgLen)}

\* What write_result serialises: err.to_string().as_bytes().
to_wire(res) == [ok |-> res.ok, msg |-> as_bytes(res.msg)]

\* Bytes another write puts on the pipe after the frame.
WireTrailers == {<< >>, <<0>>, <<1, 0>>}

\* Faulty variant of read_result_taken: the reader drains the pipe.
read_result_drain(b) == Len(b)

\* The number of bytes the read_exact calls of read_result take from buffer b:
\* the tag; for tag 1 the length and the message, as far as they are there.
read_result_taken(b) ==
    IF ~HasBytes(b, 1) THEN 0
    ELSE IF b[1] # 1 THEN 1
    ELSE IF ~HasBytes(b, 1 + UsizeBytes) THEN Len(b)
    ELSE LET len == from_le_bytes(SubSeq(b, 2, 1 + UsizeBytes))
         IN  IF ~HasBytes(b, 1 + UsizeBytes + len) THEN Len(b)
             ELSE 1 + UsizeBytes + len

\* What read_result returns for what it read: Ok(Ok(())), Ok(Err(e')) with the
\* decoded message, or Err (short read, invalid UTF-8); a panic for other tags.
read_result_value(b) ==
    LET r == read_result(b) IN
    IF r.kind = "err" THEN
        IF from_utf8(r.msg).ok THEN [kind |-> "err", msg |-> from_utf8(r.msg).str]
        ELSE [kind |-> "eof", msg |-> << >>]
    ELSE r

WireInit ==
    /\ LaunchInit([network_manager |-> FALSE])
    /\ SideOff({"wire"})
    /\ \E res \in WireResults, rest \in WireTrailers :
        wire = [pc |-> "tag", rpc |-> "read", res |-> res, rest |-> rest,
                sent |-> << >>, buf |-> << >>,
                out |-> [kind |-> "none", msg |-> << >>], taken |-> 0]

WireSend(bytes, pc) ==
    wire' = [wire EXCEPT !.buf = @ \o bytes, !.sent = @ \o bytes, !.pc = pc]

\* tx.write_all(&u8::to_le_bytes(tag))
WireWriteTag ==
    /\ wire.pc = "tag"
    /\ WireSend(Take(result_frame(to_wire(wire.res)), 1),
                IF wire.res.ok THEN "rest" ELSE "len")
    /\ UNCHANGED <<launchVars, sio, guards, life, mgr, task, ctl, cred, flow, ends, mnt, subid, store>>

\* tx.write_all(&usize::to_le_bytes(msg.as_bytes().len()))
WireWriteLen ==
    /\ wire.pc = "len"
    /\ WireSend(SubSeq(result_frame(to_wire(wire.res)), 2, 1 + UsizeBytes), "msg")
    /\ UNCHANGED <<launchVars, sio, guards, life, mgr, task, ctl, cred, flow, ends, mnt, subid, store>>

\* tx.write_all(msg.as_bytes())
WireWriteMsg ==
    /\ wire.pc = "msg"
    /\ WireSend(Drop(result_frame(to_wire(wire.res)), 1 + UsizeBytes), "rest")
    /\ UNCHANGED <<launchVars, sio, guards, life, mgr, task, ctl, cred, flow, ends, mnt, subid, store>>

\* Whatever is written to the pipe after the frame; then the writer is closed.
WireWriteRest ==
    /\ wire.pc = "rest"
    /\ WireSend(wire.rest, "closed")
    /\ UNCHANGED <<launchVars, sio, guards, life, mgr, task, ctl, cred, flow, ends, mnt, subid, store>>

\* read_result(rx): returns once its read_exact calls are served or the
\* writer is closed.
WireRead ==
    /\ wire.rpc = "read"
    /\ read_result_ready(wire.buf) \/ wire.pc = "closed"
    /\ wire' = [wire EXCEPT !.rpc = "done",
                            !.out = read_result_value(wire.buf),
                            !.taken = read_result_taken(wire.buf),
                            !.buf = Drop(@, read_result_taken(wire.buf))]
    /\ UNCHANGED <<launchVars, sio, guards, life, mgr, task, ctl, cred, flow, ends, mnt, subid, store>>

WireNext ==
    \/ WireWriteTag
    \/ WireWriteLen
    \/ WireWriteMsg
    \/ WireWriteRest
    \/ WireRead

FrameSpec == WireInit /\ [][WireNext]_vars

\* Longest run of raw bytes a peer puts on the pipe.
MaxRaw == 3

\* Bytes a holder of the write end other than write_result may send.
RawBytes == {0, 1, 2, 255}

\* What the reader may find on the pipe: the frames of write_result, and
\* any short run of raw bytes.
ReadInputs ==
    {result_frame(to_wire(res)) : res \in WireResults}
    \cup UNION {[1..n -> RawBytes] : n \in 0..MaxRaw}

\* Init: the bytes are on the pipe and every write end is closed.
ReadInit ==
    /\ LaunchInit([network_manager |-> FALSE])
    /\ SideOff({"wire"})
    /\ \E bytes \in ReadInputs :
        wire = [pc |-> "closed", rpc |-> "read", sent |-> bytes, buf |-> bytes,
                out |-> [kind |-> "none", msg |-> << >>], taken |-> 0]

ReadResultSpec == ReadInit /\ [][WireRead]_vars

\* ---------------------------------------------------------------- OwnedPid
\* OwnedPid values, each made by from_raw for a child just created, and the
\* children they guard.

\* Number of OwnedPid values alive in one behaviour.
MaxGuards == 2
GuardIds == 1..MaxGuards

\* Statuses a child can end with: exit codes 0 and 1, or a signal.
KidEnds == {Exited(0), Exited(1), Signaled}

NoGuard == [state |-> "none", slot |-> NoPid, end |-> "none", waits |-> 0,
            raw |-> NoPid, res |-> "none"]

GuardInit ==
    /\ LaunchInit([network_manager |-> FALSE])
    /\ SideOff({"guards"})
    /\ guards = [pc |-> "on",
                 g |-> [i \in GuardIds |-> NoGuard],
                 kid |-> [i \in GuardIds |-> [status |-> Running, reaped |-> FALSE]]]

\* Faulty variant of take: the pid is copied out and the guard stays armed.
take_copy(slot) == [value |-> slot, slot |-> slot]

\* Option::take on the guard's field: the value moves out, None stays behind.
take(slot) == [value |-> slot, slot |-> NoPid]

\* impl Drop for OwnedPid: `if let Some(pid) = self.0.take()` decides whether
\* waitpid runs; the number of waitpid calls the drop makes.
drop_waits(slot) == IF take(slot).value # NoPid THEN 1 ELSE 0

\* unsafe fn from_raw(pid) -> Self(Some(pid)), for the child just cloned.
OwnedPidFromRaw(i) ==
    /\ guards.g[i].state = "none"
    /\ guards' = [guards EXCEPT !.g[i] = [NoGuard EXCEPT !.state = "live", !.slot = i]]
    /\ UNCHANGED <<launchVars, sio, wire, life, mgr, task, ctl, cred, flow, ends, mnt, subid, store>>

\* fn as_raw(&self) -> Pid: self.0.unwrap(); the guard is only borrowed.
OwnedPidAsRaw(i) ==
    /\ guards.g[i].state = "live"
    /\ guards' = [guards EXCEPT !.g[i].raw = guards.g[i].slot]
    /\ UNCHANGED <<launchVars, sio, wire, life, mgr, task, ctl, cred, flow, ends, mnt, subid, store>>

\* fn into_raw(mut self) -> Pid: self.0.take().unwrap(); self is dropped when
\* the function returns, and its Drop runs on what take left behind.
OwnedPidIntoRaw(i) ==
    /\ guards.g[i].state = "live"
    /\ LET t == take(guards.g[i].slot) IN
        /\ drop_waits(t.slot) = 0 \/ guards.kid[i].status # Running
        /\ guards' = [guards EXCEPT
                         !.g[i] = [@ EXCEPT !.state = "gone", !.end = "into_raw",
                                           !.raw = t.value, !.slot = take(t.slot).slot,
                                           !.waits = @ + drop_waits(t.slot)],
                         !.kid[i].reaped = @ \/ drop_waits(t.slot) > 0]
    /\ UNCHANGED <<launchVars, sio, wire, life, mgr, task, ctl, cred, flow, ends, mnt, subid, store>>

\* fn wait_success(self): waitpid(self.into_raw(), __WALL)? blocks until the
\* child has ended, then classifies the status.
OwnedPidWaitSuccess(i) ==
    /\ guards.g[i].state = "live"
    /\ guards.kid[i].status # Running
    /\ LET t == take(guards.g[i].slot) IN
        guards' = [guards EXCEPT
                      !.g[i] = [@ EXCEPT !.state = "gone", !.end = "wait_success",
                                        !.raw = t.value, !.slot = take(t.slot).slot,
                                        !.waits = @ + drop_waits(t.slot) + 1,
                                        !.res = IF wait_success(guards.kid[i].status)
                                                   THEN "Ok" ELSE "Err"],
                      !.kid[i].reaped = TRUE]
    /\ UNCHANGED <<launchVars, sio, wire, life, mgr, task, ctl, cred, flow, ends, mnt, subid, store>>

\* The guard goes out of scope unconsumed: Drop waits for the child.
OwnedPidDrop(i) ==
    /\ guards.g[i].state = "live"
    /\ drop_waits(guards.g[i].slot) = 0 \/ guards.kid[i].status # Running
    /\ guards' = [guards EXCEPT
                     !.g[i] = [@ EXCEPT !.state = "gone", !.end = "drop",
                                       !.slot = take(guards.g[i].slot).slot,
                                       !.waits = @ + drop_waits(guards.g[i].slot)],
                     !.kid[i].reaped = @ \/ drop_waits(guards.g[i].slot) > 0]
    /\ UNCHANGED <<launchVars, sio, wire, life, mgr, task, ctl, cred, flow, ends, mnt, subid, store>>

\* The guarded child ends.
KidExit(i) ==
    /\ guards.g[i].state # "none"
    /\ guards.kid[i].status = Running
    /\ \E st \in KidEnds : guards' = [guards EXCEPT !.kid[i].status = st]
    /\ UNCHANGED <<launchVars, sio, wire, life, mgr, task, ctl, cred, flow, ends, mnt, subid, store>>

GuardNext ==
    \E i \in GuardIds :
        \/ OwnedPidFromRaw(i)
        \/ OwnedPidAsRaw(i)
        \/ OwnedPidIntoRaw(i)
        \/ OwnedPidWaitSuccess(i)
        \/ OwnedPidDrop(i)
        \/ KidExit(i)

OwnedPidSpec == GuardInit /\ [][GuardNext]_vars

\* ------------------------------------------------- container: kill, destroy
\* The Container value after Manager::create_container: it owns a state
\* directory and the container cgroup, and records the init pid.  The caller
\* starts an init process (the init launch above), waits on its handle, and
\* kills, destroys or drops the container between start calls.

\* Steps of AsRootTask::start that can go wrong: in the parent (its Err is
\* returned by start), or inside the closure the child runs.
AsRootParentSteps == {"new_pipe", "clone3", "setup_user_namespace"}
AsRootFailures == {"none", "closure"} \cup AsRootParentSteps

NoLast == [op |-> "none", kill |-> "none", state |-> "none", cgroup |-> "none",
           result |-> "none", first |-> "none", steps |-> {}, had_pid |-> FALSE,
           init |-> NoPid, pid_after |-> NoPid, echild |-> FALSE,
           task |-> "none", panicked |-> FALSE, returned |-> FALSE]

LifeInit ==
    /\ LaunchInit([network_manager |-> FALSE])
    /\ SideOff({"life"})
    /\ life = [pc |-> "on", alive |-> TRUE, state_dir |-> TRUE, op |-> "none",
               at |-> "none", pid |-> NoPid, last |-> NoLast]

\* The cgroup is the container cgroup or lies below it.
InSubtree(cg) ==
    /\ Len(cg) >= Len(ContainerCgroup)
    /\ SubSeq(cg, 1, Len(ContainerCgroup)) = ContainerCgroup

\* Writing "1" to cgroup.kill: SIGKILL for every task in the subtree.
CgroupKilled == {p \in Pids : procs[p].status = Running /\ InSubtree(procs[p].cgroup)}

cgroup_kill(pt) ==
    [p \in Pids |-> IF p \in CgroupKilled
                       THEN [pt[p] EXCEPT !.pc = "exited", !.status = Signaled]
                       ELSE pt[p]]

\* The pid names a child of the caller that has not been reaped.
Waitable(pt, pid) == pid \in Pids /\ pt[pid].role \notin {"none", "reaped"}

\* waitpid(pid, __WALL) returns: at once with ECHILD when the pid names no
\* child of the caller, else once that child has ended.
WaitReturns(pt, pid) == Waitable(pt, pid) => pt[pid].status # Running

\* Faulty variant of waitpid: the child is left unreaped.
waitpid_skip(pt, pid) == pt

\* waitpid(pid, __WALL) on a child that has ended reaps it; on anything else
\* it fails with ECHILD and changes nothing.
waitpid(pt, pid) == IF Waitable(pt, pid) THEN [pt EXCEPT ![pid] = ReapedProc] ELSE pt

\* Faulty variant of kill: the ECHILD of waitpid is returned to the caller.
kill_echild(ok) ==
    LET gone == containerPid # NoPid /\ ~Waitable(procs, containerPid) IN
    [res |-> IF ok /\ ~gone THEN "Ok" ELSE "Err",
     pid |-> IF ok THEN NoPid ELSE containerPid,
     procs |-> IF ok THEN (IF containerPid # NoPid
                              THEN waitpid(cgroup_kill(procs), containerPid)
                              ELSE cgroup_kill(procs))
               ELSE procs,
     fds |-> IF ok THEN [k \in FdKinds |-> fds[k] \ CgroupKilled] ELSE fds,
     echild |-> ok /\ gone,
     steps |-> IF ok /\ containerPid # NoPid THEN {"cgroup.kill", "waitpid"}
               ELSE {"cgroup.kill"}]

\* Container::kill as a function of whether opening and writing cgroup.kill
\* worked: on failure `?` returns before the pid is touched; on success the
\* recorded pid is taken and waited for, the outcome of the wait ignored.
kill(ok) ==
    [res |-> IF ok THEN "Ok" ELSE "Err",
     pid |-> IF ok THEN NoPid ELSE containerPid,
     procs |-> IF ok THEN (IF containerPid # NoPid
                              THEN waitpid(cgroup_kill(procs), containerPid)
                              ELSE cgroup_kill(procs))
               ELSE procs,
     fds |-> IF ok THEN [k \in FdKinds |-> fds[k] \ CgroupKilled] ELSE fds,
     echild |-> ok /\ containerPid # NoPid /\ ~Waitable(procs, containerPid),
     steps |-> IF ok /\ containerPid # NoPid THEN {"cgroup.kill", "waitpid"}
               ELSE {"cgroup.kill"}]

\* cgroup.kill can be opened and written only while the cgroup exists.
KillOutcomes == IF ContainerCgroup \in cgroupDirs THEN BOOLEAN ELSE {FALSE}

\* Container::kill, called by the owner of the container.
ContainerKill ==
    /\ call.op = "idle" /\ life.alive /\ life.op = "none"
    /\ \E ok \in KillOutcomes :
        LET k == kill(ok) IN
        /\ (ok /\ containerPid # NoPid) => WaitReturns(cgroup_kill(procs), containerPid)
        /\ containerPid' = k.pid
        /\ procs' = k.procs
        /\ fds' = k.fds
        /\ life' = [life EXCEPT !.last =
               [NoLast EXCEPT !.op = "kill", !.kill = k.res, !.result = k.res,
                              !.first = IF ok THEN "none" ELSE "kill",
                              !.steps = k.steps, !.had_pid = containerPid # NoPid,
                              !.init = containerPid, !.pid_after = k.pid,
                              !.echild = k.echild, !.returned = TRUE]]
    /\ UNCHANGED <<container, nextPid, call, ret, buf, cgroupDirs, handles, ncalls,
                   sio, wire, guards, mgr, task, ctl, cred, flow, ends, mnt, subid, store>>

\* AsRootTask::start as a function of what went wrong: the parent returns the
\* Err of its own steps; the child's exit status, which tells whether the
\* closure worked, is waited for and not looked at.
as_root_task(fail) == IF fail \in AsRootParentSteps THEN "Err" ELSE "Ok"

\* remove_dir_all(&self.state_path) inside the task: the directory is gone
\* when every step worked.
remove_state(fail, dir) == [res |-> as_root_task(fail), dir |-> dir /\ fail # "none"]

\* remove_dir(&self.cgroup_path) works only on a cgroup without child cgroups
\* and without live tasks.
RmdirOutcomes(pt) ==
    IF /\ ContainerCgroup \in cgroupDirs
       /\ \A d \in cgroupDirs : InSubtree(d) => d = ContainerCgroup
       /\ \A p \in Pids : pt[p].status = Running => ~InSubtree(pt[p].cgroup)
    THEN BOOLEAN ELSE {FALSE}

\* Faulty variant of destroy_result: the last error wins.
destroy_result_last(k, s, c) ==
    IF c = "Err" THEN "rmdir" ELSE IF s = "Err" THEN "remove_state"
    ELSE IF k = "Err" THEN "kill" ELSE "none"

\* kill_err?; state_err?; Ok(cgroup_err?): the step whose error is returned.
destroy_result(k, s, c) ==
    IF k = "Err" THEN "kill" ELSE IF s = "Err" THEN "remove_state"
    ELSE IF c = "Err" THEN "rmdir" ELSE "none"

\* Container::destroy: kill, remove_state and remove_dir, then the result.
\* destroy owns the container, so its Drop runs before destroy returns: at
\* once when kill took the pid, else through DropKill and DropWait.
ContainerDestroy ==
    /\ call.op = "idle" /\ life.alive /\ life.op = "none"
    /\ \E ok \in KillOutcomes, fail \in AsRootFailures :
        LET k == kill(ok)
            s == remove_state(fail, life.state_dir)
        IN \E rm \in RmdirOutcomes(k.procs) :
            LET c == IF rm THEN "Ok" ELSE "Err"
                first == destroy_result(k.res, s.res, c)
            IN
            /\ (ok /\ containerPid # NoPid) => WaitReturns(cgroup_kill(procs), containerPid)
            /\ containerPid' = k.pid
            /\ procs' = k.procs
            /\ fds' = k.fds
            /\ cgroupDirs' = IF rm THEN cgroupDirs \ {ContainerCgroup} ELSE cgroupDirs
            /\ life' = [life EXCEPT
                   !.alive = FALSE,
                   !.state_dir = s.dir,
                   !.op = IF k.pid = NoPid THEN "none" ELSE "destroy",
                   !.at = IF k.pid = NoPid THEN "none" ELSE "drop_kill",
                   !.last = [NoLast EXCEPT
                       !.op = "destroy", !.kill = k.res, !.state = s.res, !.cgroup = c,
                       !.result = IF first = "none" THEN "Ok" ELSE "Err",
                       !.first = first,
                       !.steps = k.steps \cup {"remove_state", "remove_dir"},
                       !.had_pid = containerPid # NoPid, !.init = containerPid,
                       !.pid_after = k.pid, !.echild = k.echild, !.task = fail,
                       !.returned = k.pid = NoPid]]
    /\ UNCHANGED <<container, nextPid, call, ret, buf, handles, ncalls,
                   sio, wire, guards, mgr, task, ctl, cred, flow, ends, mnt, subid, store>>

\* The container goes out of scope: impl Drop for Container.  With no pid
\* recorded nothing is done.
ContainerDrop ==
    /\ call.op = "idle" /\ life.alive /\ life.op = "none"
    /\ life' = [life EXCEPT
           !.alive = FALSE,
           !.op = IF containerPid = NoPid THEN "none" ELSE "drop",
           !.at = IF containerPid = NoPid THEN "none" ELSE "drop_kill",
           !.last = [NoLast EXCEPT !.op = "drop", !.result = "Ok",
                                   !.had_pid = containerPid # NoPid,
                                   !.init = containerPid, !.pid_after = containerPid,
                                   !.returned = containerPid = NoPid]]
    /\ UNCHANGED <<launchVars, sio, wire, guards, mgr, task, ctl, cred, flow, ends, mnt, subid, store>>

\* Drop: `if let Some(pid) = self.pid.take() { let _ = self.kill(); ..`: the
\* pid is taken first, so kill only writes the kill switch.
DropKill ==
    /\ life.op \in {"destroy", "drop"} /\ life.at = "drop_kill"
    /\ \E ok \in KillOutcomes :
        /\ procs' = IF ok THEN cgroup_kill(procs) ELSE procs
        /\ fds' = IF ok THEN [k \in FdKinds |-> fds[k] \ CgroupKilled] ELSE fds
        /\ containerPid' = NoPid
        /\ life' = [life EXCEPT !.at = "drop_wait", !.pid = containerPid,
                                !.last.pid_after = NoPid,
                                !.last.kill = IF life.op # "drop" THEN @
                                              ELSE IF ok THEN "Ok" ELSE "Err",
                                !.last.steps = IF life.op = "drop"
                                                  THEN @ \cup {"cgroup.kill"} ELSE @]
    /\ UNCHANGED <<container, nextPid, call, ret, buf, cgroupDirs, handles, ncalls,
                   sio, wire, guards, mgr, task, ctl, cred, flow, ends, mnt, subid, store>>

\* Drop: `let _ = waitpid(pid, Some(WaitPidFlag::__WALL));` blocks while the
\* pid names a running child of the caller; its outcome is ignored.
DropWait ==
    /\ life.op \in {"destroy", "drop"} /\ life.at = "drop_wait"
    /\ WaitReturns(procs, life.pid)
    /\ procs' = waitpid(procs, life.pid)
    /\ life' = [life EXCEPT !.op = "none", !.at = "none", !.pid = NoPid,
                            !.last.returned = TRUE,
                            !.last.steps = IF life.op = "drop"
                                              THEN @ \cup {"waitpid"} ELSE @]
    /\ UNCHANGED <<container, containerPid, nextPid, call, ret, fds, buf, cgroupDirs,
                   handles, ncalls, sio, wire, guards, mgr, task, ctl, cred, flow, ends, mnt, subid, store>>

\* What the owner of the container does with it.
ContainerStep ==
    \/ ContainerKill
    \/ ContainerDestroy
    \/ ContainerDrop
    \/ DropKill
    \/ DropWait

LifeNext ==
    \/ InitHostStep
    \/ \E p \in Pids : LaunchStep(p)
    \/ EnvStep
    \/ ContainerStep

LifeSpec == LifeInit /\ [][LifeNext]_vars

\* The same under scheduling: a destroy or drop that has begun runs on
\* through the Drop of the container (kill and the rest of destroy are one
\* step), and so does the launched process up to its exec or _exit (kill, destroy
\* and drop begin between start calls, so there is at most one).  Payload
\* exits, kills from outside and the owner's next call are not forced.
FairLifeSpec ==
    /\ LifeInit
    /\ [][LifeNext]_vars
    /\ WF_vars(DropKill \/ DropWait)
    /\ WF_vars(\E p \in Pids : LaunchStep(p))

\* Another child of the caller (the init of another container, a program the
\* application spawned): it runs outside the container cgroup.
OtherChild ==
    [FreeProc EXCEPT !.role = "other", !.pc = "payload", !.ppid = Caller, !.by = Caller,
                     !.cgroup = HostCgroup]

\* The init was reaped through its process handle (InitProcess::wait), which
\* frees its pid number while the container still records it; the kernel
\* gives the number to the next child the caller creates.
PidReuse ==
    /\ call.op = "idle" /\ life.op = "none"
    /\ containerPid # NoPid /\ procs[containerPid].role = "reaped"
    /\ procs' = [procs EXCEPT ![containerPid] = OtherChild]
    /\ UNCHANGED <<side, container, containerPid, nextPid, call, ret, fds, buf, cgroupDirs,
                   handles, ncalls>>

\* The container's life where pid numbers are reused.
PidReuseSpec == LifeInit /\ [][LifeNext \/ PidReuse]_vars

\* ------------------------------------------------------------- Manager::new
\* The checks Manager::new makes on the user mapper it is given.  The maps of
\* a mapper are public vectors, so any ranges can be handed in.
MaxRanges == 2

\* Range starts and sizes that matter for the checks: sizes that add up to
\* 2^32 (scaled: U32) and beyond, ranges with and without id 0.
RangeIds == {0, 1}
RangeSizes == {1, 2, U32 - 1}
Ranges == [container_id : RangeIds, host_id : {1000}, size : RangeSizes]
IdMaps == UNION {[1..n -> Ranges] : n \in 0..MaxRanges}

\* What can go wrong before the mapper is looked at.
NewEnvs == {"ok", "bad_cgroup_path", "create_dir", "create_dir_all"}

\* The build: with overflow checks (debug profile) an overflowing u32 sum
\* panics, without them (release profile) it wraps.
Builds == {"overflow-checks", "wrapping"}

MgrInit ==
    /\ LaunchInit([network_manager |-> FALSE])
    /\ SideOff({"mgr"})
    /\ \E um \in IdMaps, gm \in IdMaps :
        mgr = [pc |-> "new", uid_map |-> um, gid_map |-> gm,
               env |-> "ok", build |-> "wrapping", result |-> "none", err |-> "none",
               which |-> "none", id |-> 0, answer |-> "none"]

RECURSIVE id_count(_, _)
\* uid_count / gid_count: fold(0, |acc, x| acc + x.size) in wrapping u32.
id_count(id_map, acc) ==
    IF Len(id_map) = 0 THEN acc
    ELSE id_count(Tail(id_map), (acc + Head(id_map).size) % U32)

RECURSIVE id_count_overflows(_, _)
\* Some step of the fold leaves u32.
id_count_overflows(id_map, acc) ==
    /\ Len(id_map) > 0
    /\ \/ acc + Head(id_map).size >= U32
       \/ id_count_overflows(Tail(id_map), (acc + Head(id_map).size) % U32)

RECURSIVE is_id_mapped_overflows(_, _)
\* is_id_mapped computes container_id + size of every range it reaches.
is_id_mapped_overflows(id_map, id) ==
    /\ Len(id_map) > 0
    /\ \/ Head(id_map).container_id + Head(id_map).size >= U32
       \/ /\ ~is_id_mapped(<<Head(id_map)>>, id)
          /\ is_id_mapped_overflows(Tail(id_map), id)

\* `count() > 1 && !is_mapped(0)`: "panic", "reject" or "ok".
root_check(id_map, build) ==
    IF build = "overflow-checks" /\ id_count_overflows(id_map, 0) THEN "panic"
    ELSE IF ~(id_count(id_map, 0) > 1) THEN "ok"
    ELSE IF build = "overflow-checks" /\ is_id_mapped_overflows(id_map, 0) THEN "panic"
    ELSE IF ~is_id_mapped(id_map, 0) THEN "reject"
    ELSE "ok"

\* Manager::new.
manager_new(m, env, build) ==
    IF env = "bad_cgroup_path" THEN [result |-> "panic", err |-> "assertion failed"]
    ELSE IF env = "create_dir" THEN [result |-> "Err", err |-> "Cannot create cgroup"]
    ELSE IF env = "create_dir_all"
        THEN [result |-> "Err", err |-> "Cannot create state directory"]
    ELSE IF root_check(m.uid_map, build) = "panic"
        THEN [result |-> "panic", err |-> "attempt to add with overflow"]
    ELSE IF root_check(m.uid_map, build) = "reject"
        THEN [result |-> "Err", err |-> "No mapping for root user"]
    ELSE IF root_check(m.gid_map, build) = "panic"
        THEN [result |-> "panic", err |-> "attempt to add with overflow"]
    ELSE IF root_check(m.gid_map, build) = "reject"
        THEN [result |-> "Err", err |-> "No mapping for root group"]
    ELSE [result |-> "Ok", err |-> "none"]

ManagerNew ==
    /\ mgr.pc = "new"
    /\ \E env \in NewEnvs, build \in Builds :
        LET r == manager_new(mgr, env, build) IN
        mgr' = [mgr EXCEPT !.pc = "done", !.env = env, !.build = build,
                           !.result = r.result, !.err = r.err]
    /\ UNCHANGED <<launchVars, sio, wire, guards, life, task, ctl, cred, flow, ends, mnt, subid, store>>

\* Ids a caller asks about: the first ids and the largest u32.
QueryIds == {0, 1, 2, U32 - 1}

\* is_id_mapped as the build runs it: "true", "false", or "panic" when a sum
\* it computes overflows under overflow checks.
is_id_mapped_answer(id_map, id, build) ==
    IF build = "overflow-checks" /\ is_id_mapped_overflows(id_map, id) THEN "panic"
    ELSE IF is_id_mapped(id_map, id) THEN "true" ELSE "false"

\* is_uid_mapped(id) / is_gid_mapped(id) on the mapper.
MapperIsIdMapped ==
    /\ mgr.pc = "new"
    /\ \E which \in {"uid", "gid"}, id \in QueryIds, build \in Builds :
        LET id_map == IF which = "uid" THEN mgr.uid_map ELSE mgr.gid_map IN
        mgr' = [mgr EXCEPT !.pc = "asked", !.build = build, !.which = which, !.id = id,
                           !.answer = is_id_mapped_answer(id_map, id, build)]
    /\ UNCHANGED <<launchVars, sio, wire, guards, life, task, ctl, cred, flow, ends, mnt,
                   subid, store>>

MgrNext ==
    \/ ManagerNew
    \/ MapperIsIdMapped

MapperSpec == MgrInit /\ [][MgrNext]_vars

\* The ids a map covers, with sums in the integers: the map covers the id ..
MapsId(id_map, id) ==
    \E i \in 1..Len(id_map) :
        id_map[i].container_id <= id /\ id < id_map[i].container_id + id_map[i].size

\* .. and covers more than one id.
MapsMany(id_map) ==
    \/ \E i \in 1..Len(id_map) : id_map[i].size >= 2
    \/ \E i, j \in 1..Len(id_map) :
        /\ id_map[i].size >= 1 /\ id_map[j].size >= 1
        /\ id_map[i].container_id # id_map[j].container_id

\* ------------------------------------------------- run_as_user, RootFnTask
\* A closure run in a child inside a new user namespace: run_as_user (and
\* run_as_root, which is run_as_user with uid 0 and gid 0) and RootFnTask.
\* The child ends by its own exit or panic, or is killed before the closure
\* has run.
TaskKinds == {"run_as_user", "RootFnTask"}
ClosureOutcomes == {"Ok", "Err", "panic"}

\* Error messages are sequences of parts; the closure's message is one part.
ClosureMsg == "closure failed"
RootPrefix == "Cannot run as root: "

NoChild == [state |-> "none", code |-> 0]

TaskInit ==
    /\ LaunchInit([network_manager |-> FALSE])
    /\ SideOff({"task"})
    /\ \E kind \in TaskKinds, f \in ClosureOutcomes, su \in BOOLEAN :
        task = [pc |-> "on", kind |-> kind, func |-> f, set_user |-> su,
                ppc |-> "start", cpc |-> "none", child |-> NoChild,
                go |-> "none", frame |-> "none", mapped |-> FALSE,
                ran |-> FALSE, ran_mapped |-> FALSE, ran_go |-> "none",
                func_ret |-> "none", pending |-> << >>, ret |-> "none", msg |-> << >>,
                waits |-> 0, child_at_ret |-> "none"]

\* The child process ends with the exit code: its pipe ends close.
TaskChildEnds(t, code) ==
    [t EXCEPT !.cpc = "exited", !.child = [state |-> "zombie", code |-> code],
              !.frame = IF @ = "none" THEN "eof" ELSE @]

\* The call returns: the result, and whether the child is still there.
TaskReturns(t, res, msg) ==
    [t EXCEPT !.ppc = "returned", !.ret = res, !.msg = msg,
              !.child_at_ret = t.child.state]

\* Faulty variant of parent_error: the caller returns at once, the child is
\* left behind.
parent_error_unreaped(t, msg) ==
    IF t.child.state = "none" THEN TaskReturns(t, "Err", msg)
    ELSE TaskReturns([t EXCEPT !.go = IF @ = "none" THEN "closed" ELSE @], "Err", msg)

\* An Err in the parent after the clone: the write end of the go pipe is
\* dropped, and the child is waited for before the Err is returned (the
\* OwnedPid guard of run_as_user, the waitpid of RootFnTask::start).
parent_error(t, msg) ==
    IF t.child.state = "none" THEN TaskReturns(t, "Err", msg)
    ELSE [t EXCEPT !.ppc = "reap", !.pending = msg,
                   !.go = IF @ = "none" THEN "closed" ELSE @]

\* new_pipe()?, new_pipe()?, clone3(..)?: no child exists when one fails.
TaskClone ==
    /\ task.pc = "on" /\ task.ppc = "start"
    /\ \E fail \in {"none", "new_pipe", "clone3"} :
        task' = IF fail = "none"
                   THEN [task EXCEPT !.ppc = "map", !.cpc = "read_ok",
                                     !.child = [state |-> "running", code |-> 0]]
                   ELSE parent_error(task, <<fail>>)
    /\ UNCHANGED <<launchVars, sio, wire, guards, life, mgr, ctl, cred, flow, ends, mnt, subid, store>>

\* user_mapper.run_map_user(child)?
TaskMapUser ==
    /\ task.pc = "on" /\ task.ppc = "map"
    /\ \E ok \in BOOLEAN :
        task' = IF ok THEN [task EXCEPT !.ppc = "write_ok", !.mapped = TRUE]
                ELSE parent_error(task, <<"run_map_user">>)
    /\ UNCHANGED <<launchVars, sio, wire, guards, life, mgr, ctl, cred, flow, ends, mnt, subid, store>>

\* write_ok(tx)?: fails with EPIPE when the child is gone.
TaskWriteOk ==
    /\ task.pc = "on" /\ task.ppc = "write_ok"
    /\ task' = IF task.child.state = "running"
                  THEN [task EXCEPT !.ppc = "read_result", !.go = "sent"]
                  ELSE parent_error(task, <<"write_ok">>)
    /\ UNCHANGED <<launchVars, sio, wire, guards, life, mgr, ctl, cred, flow, ends, mnt, subid, store>>

\* The message of the Err the parent makes of the child's Err frame.
frame_error(kind, frame) ==
    LET part == IF frame = "Err" THEN ClosureMsg ELSE "set_user" IN
    IF kind = "RootFnTask" THEN <<RootPrefix, part>> ELSE <<part>>

\* read_result(rx): blocks until the frame or the end of the pipe.
\* run_as_user goes on to wait_success after an Ok frame; RootFnTask keeps
\* the result and waits for the child.
TaskReadResult ==
    /\ task.pc = "on" /\ task.ppc = "read_result"
    /\ task.frame # "none"
    /\ task' = IF task.frame = "eof" THEN parent_error(task, <<"read_result">>)
               ELSE IF task.frame = "Ok"
                   THEN [task EXCEPT !.ppc = IF task.kind = "run_as_user"
                                                THEN "wait_success" ELSE "reap",
                                     !.pending = << >>]
               ELSE parent_error(task, frame_error(task.kind, task.frame))
    /\ UNCHANGED <<launchVars, sio, wire, guards, life, mgr, ctl, cred, flow, ends, mnt, subid, store>>

\* child.wait_success(): Ok for exit code 0.
TaskWaitSuccess ==
    /\ task.pc = "on" /\ task.ppc = "wait_success"
    /\ task.child.state = "zombie"
    /\ LET t == [task EXCEPT !.child.state = "reaped", !.waits = @ + 1] IN
       task' = IF task.child.code = 0 THEN TaskReturns(t, "Ok", << >>)
               ELSE TaskReturns(t, "Err", <<"Child exited with">>)
    /\ UNCHANGED <<launchVars, sio, wire, guards, life, mgr, ctl, cred, flow, ends, mnt, subid, store>>

\* The wait for the child that precedes every other return: blocks until the
\* child has ended; its exit status is not looked at.
TaskReap ==
    /\ task.pc = "on" /\ task.ppc = "reap"
    /\ task.child.state = "zombie"
    /\ LET t == [task EXCEPT !.child.state = "reaped", !.waits = @ + 1] IN
       task' = IF Len(task.pending) = 0 THEN TaskReturns(t, "Ok", << >>)
               ELSE TaskReturns(t, "Err", task.pending)
    /\ UNCHANGED <<launchVars, sio, wire, guards, life, mgr, ctl, cred, flow, ends, mnt, subid, store>>

\* Child: read_ok(rx)?; the end of the pipe is an Err and exit code 1.
TaskChildReadOk ==
    /\ task.pc = "on" /\ task.cpc = "read_ok"
    /\ task.go # "none"
    /\ task' = IF task.go = "sent"
                  THEN [task EXCEPT !.cpc = IF task.kind = "run_as_user"
                                               THEN "set_user" ELSE "func"]
                  ELSE TaskChildEnds(task, 1)
    /\ UNCHANGED <<launchVars, sio, wire, guards, life, mgr, ctl, cred, flow, ends, mnt, subid, store>>

\* Child of run_as_user: set_user(uid, gid).and_then(|_| func()): the closure
\* is not called when set_user failed.
TaskChildSetUser ==
    /\ task.pc = "on" /\ task.cpc = "set_user"
    /\ task' = IF task.set_user THEN [task EXCEPT !.cpc = "func"]
               ELSE [task EXCEPT !.cpc = "write_result", !.func_ret = "set_user"]
    /\ UNCHANGED <<launchVars, sio, wire, guards, life, mgr, ctl, cred, flow, ends, mnt, subid, store>>

\* Child: func().  A panic is caught in run_as_user (catch_unwind, _exit(2));
\* in RootFnTask it unwinds out of start, dropping the pipe ends.
TaskChildFunc ==
    /\ task.pc = "on" /\ task.cpc = "func"
    /\ LET t == [task EXCEPT !.ran = TRUE, !.ran_mapped = task.mapped,
                             !.ran_go = task.go] IN
       task' = IF task.func = "panic"
                  THEN IF task.kind = "run_as_user" THEN TaskChildEnds(t, 2)
                       ELSE [t EXCEPT !.cpc = "unwound", !.frame = "eof"]
                  ELSE [t EXCEPT !.cpc = "write_result", !.func_ret = task.func]
    /\ UNCHANGED <<launchVars, sio, wire, guards, life, mgr, ctl, cred, flow, ends, mnt, subid, store>>

\* Child: write_result(tx, ..) and exit: code 0 once the frame is written.
TaskChildWriteResult ==
    /\ task.pc = "on" /\ task.cpc = "write_result"
    /\ task' = TaskChildEnds([task EXCEPT !.frame = IF task.func_ret = "Ok" THEN "Ok"
                                                    ELSE IF task.func_ret = "Err" THEN "Err"
                                                    ELSE "Err_set_user"], 0)
    /\ UNCHANGED <<launchVars, sio, wire, guards, life, mgr, ctl, cred, flow, ends, mnt, subid, store>>

\* The child that unwound out of RootFnTask::start ends at some point.
TaskChildUnwoundExit ==
    /\ task.pc = "on" /\ task.cpc = "unwound"
    /\ task' = TaskChildEnds(task, 101)
    /\ UNCHANGED <<launchVars, sio, wire, guards, life, mgr, ctl, cred, flow, ends, mnt, subid, store>>

\* The child is killed before the closure has run.
TaskChildKilled ==
    /\ task.pc = "on" /\ task.cpc \in {"read_ok", "set_user", "func"}
    /\ task' = TaskChildEnds(task, 137)
    /\ UNCHANGED <<launchVars, sio, wire, guards, life, mgr, ctl, cred, flow, ends, mnt, subid, store>>

TaskNext ==
    \/ TaskClone
    \/ TaskMapUser
    \/ TaskWriteOk
    \/ TaskReadResult
    \/ TaskWaitSuccess
    \/ TaskReap
    \/ TaskChildReadOk
    \/ TaskChildSetUser
    \/ TaskChildFunc
    \/ TaskChildWriteResult
    \/ TaskChildUnwoundExit
    \/ TaskChildKilled

RunAsSpec == TaskInit /\ [][TaskNext]_vars

\* ---------------------------------------------- cgroup.subtree_control file
\* Cgroup::subtree_controllers and Cgroup::add_subtree_controllers against the
\* kernel's cgroup.subtree_control file.  A string is a sequence of pieces: a
\* space, a plus, a minus, a newline, or a controller name (which holds none
\* of these characters).

\* Longest controller list handed to add_subtree_controllers.
MaxControllers == 3

\* Controllers of the parent's cgroup.controllers, in the kernel's order.
KernelOrder == <<"cpuset", "cpu", "memory", "pids">>
Controllers == {KernelOrder[i] : i \in 1..Len(KernelOrder)}
\* Position of each name in the order of str::cmp.
StrOrder == [c \in Controllers |->
                CASE c = "cpu" -> 1 [] c = "cpuset" -> 2 [] c = "memory" -> 3 [] OTHER -> 4]

ControllerLists == UNION {[1..n -> Controllers] : n \in 0..MaxControllers}

CtlInit ==
    /\ LaunchInit([network_manager |-> FALSE])
    /\ SideOff({"ctl"})
    /\ \E l \in ControllerLists :
        ctl = [pc |-> "on", arg |-> l, enabled |-> {}, wrote |-> << >>, added |-> "none",
               got |-> << >>, read |-> "none"]

RECURSIVE fold_controllers(_, _)
\* controllers.into_iter().fold(String::new(), |acc, v| acc + " +" + &v)
fold_controllers(cs, acc) ==
    IF Len(cs) = 0 THEN acc
    ELSE fold_controllers(Tail(cs), acc \o <<" ", "+", Head(cs)>>)

RECURSIVE split(_, _, _)
\* content.split(sep): the pieces between separators, empty ones included;
\* cur is the piece being collected.
split(str, sep, cur) ==
    IF Len(str) = 0 THEN <<cur>>
    ELSE IF Head(str) = sep THEN <<cur>> \o split(Tail(str), sep, << >>)
    ELSE split(Tail(str), sep, cur \o <<Head(str)>>)

\* The kernel's parser of a write to cgroup.subtree_control: tokens separated
\* by spaces, empty tokens skipped, each "+name" or "-name" of an available
\* controller; anything else is EINVAL and nothing changes.
KernelTokens(str) == LET t == split(str, " ", << >>) IN
    {t[i] : i \in {j \in 1..Len(t) : Len(t[j]) > 0}}
KernelAccepts(str) ==
    \A t \in KernelTokens(str) : Len(t) = 2 /\ t[1] \in {"+", "-"} /\ t[2] \in Controllers
KernelWrite(enabled, str) ==
    (enabled \cup {t[2] : t \in {u \in KernelTokens(str) : u[1] = "+"}})
        \ {t[2] : t \in {u \in KernelTokens(str) : u[1] = "-"}}

RECURSIVE KernelShow(_, _)
\* What the kernel shows on a read: the enabled controllers in its own order,
\* separated by spaces, and a newline after them; nothing when none is enabled.
KernelShow(enabled, i) ==
    IF i > Len(KernelOrder) THEN << >>
    ELSE IF KernelOrder[i] \in enabled
        THEN (IF \E j \in (i + 1)..Len(KernelOrder) : KernelOrder[j] \in enabled
                 THEN <<KernelOrder[i], " ">> ELSE <<KernelOrder[i], "\n">>)
             \o KernelShow(enabled, i + 1)
    ELSE KernelShow(enabled, i + 1)

RECURSIVE flatten(_)
flatten(ss) == IF Len(ss) = 0 THEN << >> ELSE Head(ss) \o flatten(Tail(ss))

\* Faulty variant of parse_controllers: the lines are not split at spaces.
parse_controllers_lines(content) ==
    LET lines == SelectSeq(split(content, "\n", << >>), LAMBDA l : Len(l) > 0)
    IN  [i \in 1..Len(lines) |-> lines[i][1]]

\* The loop of subtree_controllers: lines split at '\n', empty lines dropped,
\* each line split at ' ', every piece pushed (a name is one piece here, an
\* empty piece the empty string).
parse_controllers(content) ==
    LET lines == SelectSeq(split(content, "\n", << >>), LAMBDA l : Len(l) > 0)
        words == flatten([i \in 1..Len(lines) |-> split(lines[i], " ", << >>)])
    IN  [i \in 1..Len(words) |-> IF Len(words[i]) = 0 THEN "" ELSE words[i][1]]

\* Cgroup::subtree_controllers.
CtlSubtreeControllers ==
    /\ ctl.pc = "on"
    /\ ctl' = [ctl EXCEPT !.got = parse_controllers(KernelShow(ctl.enabled, 1)),
                          !.read = IF ctl.added = "none" THEN "fresh" ELSE "after"]
    /\ UNCHANGED <<launchVars, sio, wire, guards, life, mgr, task, cred, flow, ends, mnt, subid, store>>

\* Cgroup::add_subtree_controllers: one write_all of the folded string (no
\* write at all for the empty string); the kernel applies it or refuses it.
CtlAddSubtreeControllers ==
    /\ ctl.pc = "on" /\ ctl.added = "none"
    /\ LET str == fold_controllers(ctl.arg, << >>) IN
       \E refused \in BOOLEAN :
        /\ refused => Len(str) > 0
        /\ ~refused => KernelAccepts(str)
        /\ ctl' = [ctl EXCEPT !.wrote = str, !.read = "none", !.got = << >>,
                              !.added = IF refused THEN "Err" ELSE "Ok",
                              !.enabled = IF refused THEN @ ELSE KernelWrite(@, str)]
    /\ UNCHANGED <<launchVars, sio, wire, guards, life, mgr, task, cred, flow, ends, mnt, subid, store>>

CtlNext ==
    \/ CtlSubtreeControllers
    \/ CtlAddSubtreeControllers

CgroupFileSpec == CtlInit /\ [][CtlNext]_vars

RECURSIVE insert_sorted(_, _)
insert_sorted(x, s) ==
    IF Len(s) = 0 THEN <<x>>
    ELSE IF StrOrder[x] <= StrOrder[Head(s)] THEN <<x>> \o s
    ELSE <<Head(s)>> \o insert_sorted(x, Tail(s))

RECURSIVE sort(_)
\* controllers.sort()
sort(s) == IF Len(s) = 0 THEN << >> ELSE insert_sorted(Head(s), sort(Tail(s)))

\* ------------------------------------------- the init child, call by call
\* The block the init child runs between read_ok and execvpe, one system call
\* at a time, with the credentials the calls act on.  The steps are InitSteps;
\* setup_mount_namespace and set_user are spelled out.

\* The user mappers: ProcUserMapper with and without set_groups, BinNewIdMapper.
MapperKinds == {"proc", "proc_set_groups", "bin"}

\* Faulty variant of set_user_calls: the uid is changed first.
set_user_calls_uid_first(kind) ==
    <<"setuid">> \o (IF kind = "proc" THEN << >> ELSE <<"getgrouplist", "setgroups">>)
        \o <<"setgid">>

\* UserMapper::set_user: the group list and setgroups (ProcUserMapper: only
\* with set_groups), then setgid, then setuid.
set_user_calls(kind) ==
    (IF kind = "proc" THEN << >> ELSE <<"getgrouplist", "setgroups">>)
        \o <<"setgid", "setuid">>

\* The calls of one step of the block.
StepCalls(s, kind) ==
    CASE s = "setup_mount_namespace" -> <<"remount_private_root", "mount", "pivot_root">>
      [] s = "stdio" -> <<"dup2_stdin", "dup2_stdout", "dup2_stderr">>
      [] s = "set_user" -> set_user_calls(kind)
      [] OTHER -> <<s>>

RECURSIVE BlockCalls(_, _, _)
\* The calls of the block from step i on, for a container with or without a
\* network manager.
BlockCalls(i, net, kind) ==
    IF i > Len(InitSteps) THEN << >>
    ELSE (IF Applies(InitSteps[i], net) THEN StepCalls(InitSteps[i], kind) ELSE << >>)
         \o BlockCalls(i + 1, net, kind)

\* Everything the child does after read_ok: the block, the frame, the
\* argument strings, execvpe.
ChildCalls(net, kind) == BlockCalls(1, net, kind) \o <<"write_result", "cstring", "execvpe">>

CredInit ==
    /\ LaunchInit([network_manager |-> FALSE])
    /\ SideOff({"cred"})
    /\ \E net \in BOOLEAN, kind \in MapperKinds, user \in {<<0, 0>>, <<1000, 1000>>} :
        cred = [pc |-> "on", net |-> net, kind |-> kind, user |-> user,
                log |-> << >>, failed |-> "none", ended |-> "running",
                euid |-> 0, egid |-> 0, groups |-> "inherited"]

\* The next call of the child.
CredCall == ChildCalls(cred.net, cred.kind)[Len(cred.log) + 1]

\* setgroups and setgid need CAP_SETGID, setuid needs CAP_SETUID: the child
\* has them in its user namespace while its effective uid is 0.
Privileged == cred.euid = 0

\* The call fails: the Err leaves the block and the child exits.
CredFails == [cred EXCEPT !.failed = CredCall, !.ended = "exit"]
CredDone == [cred EXCEPT !.log = @ \o <<CredCall>>]

\* A call of the mount, hostname, network, stdio, close-on-exec or chdir step.
CredSetupCall ==
    /\ cred.pc = "on" /\ cred.ended = "running"
    /\ CredCall \notin {"getgrouplist", "setgroups", "setgid", "setuid",
                        "write_result", "cstring", "execvpe"}
    /\ \E ok \in BOOLEAN : cred' = IF ok THEN CredDone ELSE CredFails
    /\ UNCHANGED <<launchVars, sio, wire, guards, life, mgr, task, ctl, flow, ends, mnt, subid, store>>

\* A call of set_user.
CredSetUserCall ==
    /\ cred.pc = "on" /\ cred.ended = "running"
    /\ CredCall \in {"getgrouplist", "setgroups", "setgid", "setuid"}
    /\ \E ok \in BOOLEAN :
        /\ (ok /\ CredCall # "getgrouplist") => Privileged
        /\ cred' = IF ~ok THEN CredFails
                   ELSE CASE CredCall = "setgroups" -> [CredDone EXCEPT !.groups = "set"]
                          [] CredCall = "setgid" -> [CredDone EXCEPT !.egid = cred.user[2]]
                          [] CredCall = "setuid" -> [CredDone EXCEPT !.euid = cred.user[1]]
                          [] OTHER -> CredDone
    /\ UNCHANGED <<launchVars, sio, wire, guards, life, mgr, task, ctl, flow, ends, mnt, subid, store>>

\* write_result, CString::new, execvpe.
CredExecCall ==
    /\ cred.pc = "on" /\ cred.ended = "running"
    /\ CredCall \in {"write_result", "cstring", "execvpe"}
    /\ \E ok \in BOOLEAN :
        cred' = IF ~ok THEN CredFails
                ELSE IF CredCall = "execvpe" THEN [CredDone EXCEPT !.ended = "exec"]
                ELSE CredDone
    /\ UNCHANGED <<launchVars, sio, wire, guards, life, mgr, task, ctl, flow, ends, mnt, subid, store>>

CredNext ==
    \/ CredSetupCall
    \/ CredSetUserCall
    \/ CredExecCall

InitChildSpec == CredInit /\ [][CredNext]_vars

\* Position of a call in the log, 0 when it was not made.
At(c) == IF \E i \in 1..Len(cred.log) : cred.log[i] = c
            THEN CHOOSE i \in 1..Len(cred.log) : cred.log[i] = c ELSE 0

\* --------------------------------------- a cloned process's way to its end
\* The control flow of the process that clone3 or fork returns Child in: the
\* init child, the exec launch's fork child (intermediate) and its clone3
\* child (grandchild), and run_as_user's child.  Each `?`, each call that can
\* panic and execvpe is a point where control may leave the closure.

Sites == {"init", "mid", "grand", "run_as_user"}

\* The points of a site's closure, in code order.
Points(site) ==
    CASE site = "init" -> <<"read_ok", "block", "write_result", "filename", "argv",
                            "envp", "execvpe">>
      [] site = "mid" -> <<"cgroup_open", "pidfd_open", "setns", "new_pipe", "clone3",
                           "write_pid", "read_result">>
      [] site = "grand" -> <<"block", "write_result", "filename", "argv", "envp",
                             "execvpe">>
      [] OTHER -> <<"read_ok", "set_user", "func", "write_result">>

\* The closure's point is inside an exit_child(..) call: the init child's and
\* run_as_user's whole closure, the intermediate's Parent branch of clone3.
InExitChild(site, point) ==
    \/ site \in {"init", "run_as_user"}
    \/ site = "mid" /\ point \in {"write_pid", "read_result"}

\* Where control goes when the closure ends with a result or a panic: into
\* exit_child when the point is inside one and the closure did not panic,
\* else back to the statement after catch_unwind.
leave(site, point, how) ==
    IF how # "panic" /\ InExitChild(site, point) THEN "exit_child" ELSE "catch_unwind"

Execd == [tag |-> "Execd", code |-> 0]

FlowInit ==
    /\ LaunchInit([network_manager |-> FALSE])
    /\ SideOff({"flow"})
    /\ \E site \in Sites :
        flow = [pc |-> "on", site |-> site, i |-> 1, at |-> "closure", how |-> "none",
                cause |-> "none", end |-> Running]

\* The closure runs its next point: it passes, returns an Err through `?`, or
\* panics; execvpe replaces the image when it succeeds; the last point of a
\* closure that does not exec returns its Ok or Err.
FlowPoint ==
    /\ flow.pc = "on" /\ flow.at = "closure"
    /\ LET pt == Points(flow.site)[flow.i]
           last == flow.i = Len(Points(flow.site))
       IN \E how \in {"Ok", "Err", "panic"} :
           flow' =
               IF how = "Ok" /\ pt = "execvpe"
                   THEN [flow EXCEPT !.at = "ended", !.end = Execd, !.cause = pt]
               ELSE IF how = "Ok" /\ ~last THEN [flow EXCEPT !.i = @ + 1]
               ELSE [flow EXCEPT !.at = leave(flow.site, pt, how), !.how = how,
                                 !.cause = pt]
    /\ UNCHANGED <<launchVars, sio, wire, guards, life, mgr, task, ctl, cred, ends, mnt, subid, store>>

\* exit_child(result): _exit(0) for Ok, _exit(1) for Err.
FlowExitChild ==
    /\ flow.pc = "on" /\ flow.at = "exit_child"
    /\ flow' = [flow EXCEPT !.at = "ended", !.end = exit_child(flow.how = "Ok")]
    /\ UNCHANGED <<launchVars, sio, wire, guards, life, mgr, task, ctl, cred, ends, mnt, subid, store>>

\* `let _ = catch_unwind(..); unsafe { _exit(2) }`: whatever catch_unwind
\* returned is dropped and the process exits.
FlowAfterCatchUnwind ==
    /\ flow.pc = "on" /\ flow.at = "catch_unwind"
    /\ flow' = [flow EXCEPT !.at = IF exit_after_catch_unwind.tag = "Exited"
                                      THEN "ended" ELSE "caller",
                            !.end = exit_after_catch_unwind]
    /\ UNCHANGED <<launchVars, sio, wire, guards, life, mgr, task, ctl, cred, ends, mnt, subid, store>>

FlowNext ==
    \/ FlowPoint
    \/ FlowExitChild
    \/ FlowAfterCatchUnwind

ChildFlowSpec == FlowInit /\ [][FlowNext]_vars

\* ------------------------------------------------ pipe ends, by holder
\* The pipes of one InitProcessOptions::start, ProcessOptions::start or
\* run_as_user call: which process holds which end, from new_pipe to the
\* return of the call.  Every line of the code that creates, copies (clone3,
\* fork, spawn), selects (Pipe::rx, Pipe::tx), uses or drops an end is one op.

EndProcs == {"caller", "child", "mid", "grand", "helper"}
EndPipes == {"pipe", "child_pipe", "pid_pipe"}
EndSites == {"init", "exec", "run_as_user"}

\* The ops of a process, in code order: <<op, argument>>.
Program(site, p) ==
    CASE p = "caller" /\ site = "init" ->
            <<<<"new_pipe", "pipe">>, <<"new_pipe", "child_pipe">>, <<"clone", "child">>,
              <<"rx", "child_pipe">>, <<"tx", "pipe">>, <<"spawn", "run_map_user">>,
              <<"add_process", "cgroup">>, <<"spawn", "run_network">>, <<"write", "pipe">>,
              <<"read", "child_pipe">>>>
      [] p = "caller" /\ site = "run_as_user" ->
            <<<<"new_pipe", "pipe">>, <<"new_pipe", "child_pipe">>, <<"clone", "child">>,
              <<"rx", "child_pipe">>, <<"tx", "pipe">>, <<"spawn", "run_map_user">>,
              <<"write", "pipe">>, <<"read", "child_pipe">>, <<"wait", "child">>>>
      [] p = "caller" /\ site = "exec" ->
            <<<<"new_pipe", "pid_pipe">>, <<"clone", "mid">>, <<"rx", "pid_pipe">>,
              <<"read", "pid_pipe">>, <<"wait", "mid">>>>
      [] p = "child" ->
            <<<<"rx", "pipe">>, <<"tx", "child_pipe">>, <<"read", "pipe">>,
              <<"write", "child_pipe">>>>
      [] p = "mid" ->
            <<<<"tx", "pid_pipe">>, <<"new_pipe", "pipe">>, <<"clone", "grand">>,
              <<"write", "pid_pipe">>, <<"rx", "pipe">>, <<"read", "pipe">>>>
      [] p = "grand" ->
            <<<<"drop_tx", "pid_pipe">>, <<"tx", "pipe">>, <<"write", "pipe">>>>
      [] OTHER -> << >>

\* The descriptor flags of the two ends nix::unistd::pipe() returns.
pipe_flags == {}

\* The UserMapper implementations of user.rs.
UserMappers == {"BinNewIdMapper", "ProcUserMapper"}

EndsInit ==
    /\ LaunchInit([network_manager |-> FALSE])
    /\ SideOff({"ends"})
    /\ \E site \in EndSites, net \in BOOLEAN, mapper \in UserMappers :
        /\ net => site = "init"
        /\ mapper = "ProcUserMapper" => site # "exec"
        /\ ends = [pc |-> "on", site |-> site, net |-> net, mapper |-> mapper, ret |-> "none",
                   at |-> [p \in EndProcs |-> 1],
                   run |-> [p \in EndProcs |-> IF p = "caller" THEN "running" ELSE "none"],
                   held |-> {}, cloexec |-> {}, data |-> [n \in EndPipes |-> 0],
                   leaked |-> {}]

EndsRunning(p) == ends.run[p] = "running" /\ ends.at[p] <= Len(Program(ends.site, p))
EndsOp(p) == Program(ends.site, p)[ends.at[p]]
Holds(p, n, e) == <<p, n, e>> \in ends.held
HeldBy(h, p) == {x \in h : x[1] = p}
\* The ends a process gets at clone3/fork (all) or a spawned program keeps
\* after its exec (those without close-on-exec).
Copies(h, p, c) == {<<c, x[2], x[3]>> : x \in HeldBy(h, p)}
Inherited(h, cx, p, c) == {x \in Copies(h, p, c) : <<x[2], x[3]>> \notin cx}

\* Faulty variant of Gone: the network handle is leaked, not dropped.
Gone_handle_leaked(s, p, how) ==
    [s EXCEPT !.run[p] = how,
              !.held = {x \in @ : x[1] # p},
              !.ret = IF p # "caller" THEN @
                      ELSE IF how = "returned" THEN "Err" ELSE "panic"]

\* The process ends, or the call leaves early (`?`, or a panic that unwinds):
\* every end it holds is closed; a caller that leaves drops the network
\* handle, whose Drop kills the helper and waits for it.
Gone(s, p, how) ==
    LET dead == IF p = "caller" THEN {"caller", "helper"} ELSE {p} IN
    [s EXCEPT !.run = [q \in EndProcs |->
                          IF q = p THEN how
                          ELSE IF q \in dead /\ s.run[q] = "running" THEN "exited"
                          ELSE s.run[q]],
              !.held = {x \in @ : x[1] \notin dead},
              !.ret = IF p # "caller" THEN @
                      ELSE IF how = "returned" THEN "Err" ELSE "panic"]
Advance(s, p) == [s EXCEPT !.at[p] = @ + 1]

\* new_pipe()?: both ends, with the flags pipe() gives them.
EndsNewPipe(p) ==
    /\ ends.pc = "on" /\ EndsRunning(p) /\ EndsOp(p)[1] = "new_pipe"
    /\ LET n == EndsOp(p)[2] IN
       \E ok \in BOOLEAN :
        ends' = IF ok THEN
                    [Advance(ends, p) EXCEPT
                        !.held = @ \cup {<<p, n, "rx">>, <<p, n, "tx">>},
                        !.cloexec = @ \cup (IF pipe_flags = {} THEN {}
                                            ELSE {<<n, "rx">>, <<n, "tx">>})]
                ELSE Gone(ends, p, IF p = "caller" THEN "returned" ELSE "exited")
    /\ UNCHANGED <<launchVars, sio, wire, guards, life, mgr, task, ctl, cred, flow, mnt, subid, store>>

\* clone3 / fork: the new process has a copy of every descriptor.
EndsClone(p) ==
    /\ ends.pc = "on" /\ EndsRunning(p) /\ EndsOp(p)[1] = "clone"
    /\ LET c == EndsOp(p)[2] IN
       \E ok \in BOOLEAN :
        ends' = IF ok THEN
                    [Advance(ends, p) EXCEPT !.held = @ \cup Copies(@, p, c),
                                             !.run[c] = "running"]
                ELSE Gone(ends, p, IF p = "caller" THEN "returned" ELSE "exited")
    /\ UNCHANGED <<launchVars, sio, wire, guards, life, mgr, task, ctl, cred, flow, mnt, subid, store>>

\* Faulty variant of dropped_end: Pipe::rx and Pipe::tx keep the other end.
dropped_end_kept(op) == IF op = "drop_tx" THEN "tx" ELSE "none"

\* The end a selection closes: Pipe::rx drops tx, Pipe::tx drops rx;
\* drop(pid_tx) drops a writer.
dropped_end(op) == IF op = "tx" THEN "rx" ELSE "tx"

\* Pipe::rx, Pipe::tx, drop(pid_tx).
EndsSelect(p) ==
    /\ ends.pc = "on" /\ EndsRunning(p) /\ EndsOp(p)[1] \in {"rx", "tx", "drop_tx"}
    /\ LET n == EndsOp(p)[2]
       IN ends' = [Advance(ends, p) EXCEPT !.held = @ \ {<<p, n, dropped_end(EndsOp(p)[1])>>}]
    /\ UNCHANGED <<launchVars, sio, wire, guards, life, mgr, task, ctl, cred, flow, mnt, subid, store>>

\* cgroup.add_process(child)?: a write to cgroup.procs.
EndsAddProcess ==
    /\ ends.pc = "on" /\ EndsRunning("caller") /\ EndsOp("caller")[1] = "add_process"
    /\ \E ok \in BOOLEAN :
        ends' = IF ok THEN Advance(ends, "caller") ELSE Gone(ends, "caller", "returned")
    /\ UNCHANGED <<launchVars, sio, wire, guards, life, mgr, task, ctl, cred, flow, mnt, subid, store>>

\* run_map_user, run_network: Command::spawn execs a program that inherits
\* the caller's descriptors without close-on-exec.  newuidmap and newgidmap
\* are waited for inside run_map_user; the network helper lives as long as
\* its handle.  A container without network manager spawns nothing.
\* ProcUserMapper::run_map_user is todo!(): it panics.
EndsSpawn ==
    /\ ends.pc = "on" /\ EndsRunning("caller") /\ EndsOp("caller")[1] = "spawn"
    /\ LET got == Inherited(ends.held, ends.cloexec, "caller", "helper")
           stays == EndsOp("caller")[2] = "run_network"
       IN \E ok \in BOOLEAN :
           ends' = IF ~stays /\ ends.mapper = "ProcUserMapper" THEN
                       Gone(ends, "caller", "panicked")
                   ELSE IF stays /\ ~ends.net THEN
                       IF ok THEN Advance(ends, "caller") ELSE ends
                   ELSE IF ok THEN
                       [Advance(ends, "caller") EXCEPT
                           !.leaked = @ \cup got,
                           !.held = IF stays THEN @ \cup got ELSE @,
                           !.run["helper"] = IF stays THEN "running" ELSE @]
                   ELSE [Gone(ends, "caller", "returned") EXCEPT
                           !.leaked = IF stays THEN @ ELSE @ \cup got]
    /\ ends' # ends
    /\ UNCHANGED <<launchVars, sio, wire, guards, life, mgr, task, ctl, cred, flow, mnt, subid, store>>

\* write_ok, write_pid, write_result: the writer is moved into the call and
\* dropped by it; the write fails with EPIPE when no reader is left.
EndsWrite(p) ==
    /\ ends.pc = "on" /\ EndsRunning(p) /\ EndsOp(p)[1] = "write"
    /\ LET n == EndsOp(p)[2] IN
       ends' = IF \E q \in EndProcs : Holds(q, n, "rx") THEN
                   [Advance(ends, p) EXCEPT !.held = @ \ {<<p, n, "tx">>},
                                            !.data[n] = @ + 1]
               ELSE Gone(ends, p, IF p = "caller" THEN "returned" ELSE "exited")
    /\ UNCHANGED <<launchVars, sio, wire, guards, life, mgr, task, ctl, cred, flow, mnt, subid, store>>

\* read_ok, read_pid, read_result: blocks until there are bytes or no writer
\* is left; the reader is moved into the call and dropped by it.  End of file
\* and an Err frame leave through `?`.
EndsRead(p) ==
    /\ ends.pc = "on" /\ EndsRunning(p) /\ EndsOp(p)[1] = "read"
    /\ LET n == EndsOp(p)[2] IN
       /\ ends.data[n] > 0 \/ \A q \in EndProcs : ~Holds(q, n, "tx")
       /\ \E frame_ok \in BOOLEAN :
           ends' = IF ends.data[n] > 0 /\ frame_ok THEN
                       [Advance(ends, p) EXCEPT !.held = @ \ {<<p, n, "rx">>},
                                                !.data[n] = @ - 1]
                   ELSE Gone(ends, p, IF p = "caller" THEN "returned" ELSE "exited")
    /\ UNCHANGED <<launchVars, sio, wire, guards, life, mgr, task, ctl, cred, flow, mnt, subid, store>>

\* child.wait_success(): blocks until the process has ended.
EndsWait ==
    /\ ends.pc = "on" /\ EndsRunning("caller") /\ EndsOp("caller")[1] = "wait"
    /\ ends.run[EndsOp("caller")[2]] # "running"
    /\ ends' = Advance(ends, "caller")
    /\ UNCHANGED <<launchVars, sio, wire, guards, life, mgr, task, ctl, cred, flow, mnt, subid, store>>

\* The end of a process's ops: the caller returns Ok (the network handle
\* stays with the InitProcess); a launched process execs or exits.
EndsFinish(p) ==
    /\ ends.pc = "on" /\ ends.run[p] = "running" /\ p # "helper"
    /\ ends.at[p] > Len(Program(ends.site, p))
    /\ ends' = [ends EXCEPT !.run[p] = IF p = "caller" THEN "returned" ELSE "exited",
                            !.held = @ \ HeldBy(@, p),
                            !.ret = IF p = "caller" THEN "Ok" ELSE @]
    /\ UNCHANGED <<launchVars, sio, wire, guards, life, mgr, task, ctl, cred, flow, mnt, subid, store>>

\* A launched process is killed, or fails a step other than its reads and
\* writes: it ends wherever it is.
EndsKilled(p) ==
    /\ ends.pc = "on" /\ p \in {"child", "mid", "grand"} /\ EndsRunning(p)
    /\ ends' = Gone(ends, p, "exited")
    /\ UNCHANGED <<launchVars, sio, wire, guards, life, mgr, task, ctl, cred, flow, mnt, subid, store>>

EndsNext ==
    \/ \E p \in EndProcs :
        \/ EndsNewPipe(p)
        \/ EndsClone(p)
        \/ EndsSelect(p)
        \/ EndsWrite(p)
        \/ EndsRead(p)
        \/ EndsFinish(p)
        \/ EndsKilled(p)
    \/ EndsSpawn
    \/ EndsAddProcess
    \/ EndsWait

PipeEndsSpec == EndsInit /\ [][EndsNext]_vars

\* Process p has completed op: it is before p's position in its program.
Did(p, op) == \E i \in 1..(ends.at[p] - 1) : Program(ends.site, p)[i] = op

\* The process that writes pipe n in the protocol of the call.
Writer(site, n) ==
    IF n = "pid_pipe" THEN "mid"
    ELSE IF n = "child_pipe" THEN "child"
    ELSE IF site = "exec" THEN "grand" ELSE "caller"

\* ------------------------------------------------- setup_mount_namespace
\* The calls setup_mount_namespace makes in the init child and what they do
\* to the child's mount namespace: the propagation of /, the bind of the
\* rootfs, the mounts below the rootfs, the pivot.

\* Most mounts a container is configured with.
MaxMounts == 2

\* The Mount implementations: OverlayMount, BaseMounts, and one supplied by
\* the user of the library (the trait is public): a single mount call.
MountKinds == {"overlay", "base", "user"}

\* container.mounts: a vector in insertion order.
MountLists ==
    {ms \in UNION {[1..n -> MountKinds] : n \in 0..MaxMounts} :
        \A i, j \in 1..Len(ms) : i # j => ms[i] # ms[j]}

\* The targets BaseMounts mounts, in the order of its setup_mount calls.
BaseTargets == <<"/sys", "/proc", "/dev", "/dev/pts", "/dev/shm", "/dev/mqueue",
                 "/sys/fs/cgroup">>

Call(phase, idx, op, arg) == [phase |-> phase, idx |-> idx, op |-> op, arg |-> arg]
NoCall == Call("none", 0, "none", "none")

\* remount_private_root: / recursive slave, / private, rootfs bound on itself.
remount_private_root ==
    <<Call("remount", 0, "mount", "MS_SLAVE|MS_REC"), Call("remount", 0, "mount", "MS_PRIVATE"),
      Call("remount", 0, "mount", "MS_BIND|MS_REC")>>

RECURSIVE base_mounts(_, _)
\* BaseMounts::mount: setup_mount for each target: create_dir, then mount.
base_mounts(idx, i) ==
    IF i > Len(BaseTargets) THEN << >>
    ELSE <<Call("mounts", idx, "create_dir", BaseTargets[i]),
           Call("mounts", idx, "mount", BaseTargets[i])>> \o base_mounts(idx, i + 1)

\* Mount::mount of the mount at position idx.
mount_calls(kind, idx) ==
    IF kind = "base" THEN base_mounts(idx, 1)
    ELSE <<Call("mounts", idx, "mount", kind)>>

\* Faulty variant of mounts_from: the vector is walked from its end.
mounts_from_end(ms, i) == Len(ms) + 1 - i

\* `for mount in &container.mounts`: the position visited in round i.
mounts_from(ms, i) == i

RECURSIVE mounts_loop(_, _)
mounts_loop(ms, i) ==
    IF i > Len(ms) THEN << >>
    ELSE mount_calls(ms[mounts_from(ms, i)], mounts_from(ms, i)) \o mounts_loop(ms, i + 1)

\* pivot_root: open the rootfs, pivot_root(path, path), / recursive slave,
\* detach the old root, fchdir to the new root.
pivot_root ==
    <<Call("pivot_root", 0, "open", "rootfs"), Call("pivot_root", 0, "pivot_root", "rootfs"),
      Call("pivot_root", 0, "mount", "MS_SLAVE|MS_REC"),
      Call("pivot_root", 0, "umount2", "MNT_DETACH"), Call("pivot_root", 0, "fchdir", "rootfs")>>

\* setup_mount_namespace: the three parts, each left by `?` at its first Err.
setup_mount_namespace(ms) == remount_private_root \o mounts_loop(ms, 1) \o pivot_root

MntInit ==
    /\ LaunchInit([network_manager |-> FALSE])
    /\ SideOff({"mnt"})
    /\ \E ms \in MountLists :
        mnt = [pc |-> "on", mounts |-> ms, n |-> 0, result |-> "none", failed |-> NoCall,
               root |-> "shared", bound |-> FALSE, mounted |-> << >>, dirs |-> {},
               pivoted |-> FALSE, old_root |-> "none", cwd |-> "host"]

MntCall == setup_mount_namespace(mnt.mounts)[mnt.n + 1]
MntRunning == mnt.pc = "on" /\ mnt.result = "none"

\* The call returned Err: `?` leaves setup_mount_namespace.
MntFails == [mnt EXCEPT !.result = "Err", !.failed = MntCall]
\* The call worked; after the last one setup_mount_namespace returns Ok.
MntPasses(m) ==
    [m EXCEPT !.n = @ + 1,
              !.result = IF mnt.n + 1 = Len(setup_mount_namespace(mnt.mounts))
                            THEN "Ok" ELSE "none"]

\* A call of remount_private_root.
MntRemount ==
    /\ MntRunning /\ MntCall.phase = "remount"
    /\ \E ok \in BOOLEAN :
        mnt' = IF ~ok THEN MntFails
               ELSE IF MntCall.arg = "MS_SLAVE|MS_REC" THEN MntPasses([mnt EXCEPT !.root = "slave"])
               ELSE IF MntCall.arg = "MS_PRIVATE" THEN MntPasses([mnt EXCEPT !.root = "private"])
               ELSE MntPasses([mnt EXCEPT !.bound = TRUE])
    /\ UNCHANGED <<launchVars, sio, wire, guards, life, mgr, task, ctl, cred, flow, ends,
                   subid, store>>

\* A call of one of the container's mounts.  create_dir on an existing
\* directory is an AlreadyExists error that ignore_kind swallows.
MntMount ==
    /\ MntRunning /\ MntCall.phase = "mounts"
    /\ \E out \in {"ok", "exists", "err"} :
        /\ out = "exists" => MntCall.op = "create_dir"
        /\ mnt' = IF out = "err" THEN MntFails
                  ELSE IF MntCall.op = "create_dir"
                      THEN MntPasses([mnt EXCEPT !.dirs = @ \cup {MntCall.arg}])
                  ELSE MntPasses([mnt EXCEPT !.mounted = @ \o <<<<MntCall.idx, MntCall.arg>>>>])
    /\ UNCHANGED <<launchVars, sio, wire, guards, life, mgr, task, ctl, cred, flow, ends,
                   subid, store>>

\* A call of pivot_root.
MntPivotRoot ==
    /\ MntRunning /\ MntCall.phase = "pivot_root"
    /\ \E ok \in BOOLEAN :
        mnt' = IF ~ok THEN MntFails
               ELSE CASE MntCall.op = "pivot_root" ->
                            MntPasses([mnt EXCEPT !.pivoted = TRUE, !.old_root = "stacked"])
                      [] MntCall.op = "umount2" -> MntPasses([mnt EXCEPT !.old_root = "detached"])
                      [] MntCall.op = "fchdir" -> MntPasses([mnt EXCEPT !.cwd = "rootfs"])
                      [] OTHER -> MntPasses(mnt)
    /\ UNCHANGED <<launchVars, sio, wire, guards, life, mgr, task, ctl, cred, flow, ends,
                   subid, store>>

MntNext ==
    \/ MntRemount
    \/ MntMount
    \/ MntPivotRoot

MountNamespaceSpec == MntInit /\ [][MntNext]_vars

\* The mounts of the container's mount at position i have all been made.
Applied(i) ==
    LET want == IF mnt.mounts[i] = "base" THEN Len(BaseTargets) ELSE 1 IN
    Cardinality({k \in 1..Len(mnt.mounted) : mnt.mounted[k][1] = i}) = want
\* Some mount of the mount at position i has been made.
Touched(i) == \E k \in 1..Len(mnt.mounted) : mnt.mounted[k][1] = i

\* ---------------------------------------------------- subordinate id files
\* BinNewIdMapper::new_root_subid reads /etc/subuid and /etc/subgid, whose
\* lines are name:start:count, and builds the uid and gid maps from the
\* user's first entry in each.

\* Most lines in /etc/subuid or /etc/subgid.
MaxLines == 2

\* The name of the calling user, and the name of another user.
UserName == <<"u">>
OtherName == <<"v">>

\* Values of the decimal digits.
DigitValue == [c \in {"0", "1", "2", "3", "4", "5", "6", "7", "8", "9"} |->
    CASE c = "0" -> 0 [] c = "1" -> 1 [] c = "2" -> 2 [] c = "3" -> 3 [] c = "4" -> 4
      [] c = "5" -> 5 [] c = "6" -> 6 [] c = "7" -> 7 [] c = "8" -> 8 [] c = "9" -> 9]

RECURSIVE from_str_digits(_, _)
\* The digits of s appended in base ten to acc; -1 when a character is not
\* a digit or the value leaves u32.
from_str_digits(s, acc) ==
    IF Len(s) = 0 THEN acc
    ELSE IF Head(s) \notin DOMAIN DigitValue THEN -1
    ELSE LET v == acc * 10 + DigitValue[Head(s)] IN
         IF v >= U32 THEN -1 ELSE from_str_digits(Tail(s), v)

\* u32::from_str: an optional '+', then one or more digits; -1 stands for Err.
from_str(s) ==
    LET digits == IF Len(s) > 0 /\ Head(s) = "+" THEN Tail(s) ELSE s IN
    IF Len(digits) = 0 THEN -1 ELSE from_str_digits(digits, 0)

\* Lines the files are made of: entries of the user and of another user,
\* with counts 0 and 2, a count and a start that are not numbers, a line
\* with a fourth field, lines with too few fields.
SubidLines ==
    {UserName \o <<":">> \o s \o <<":">> \o c :
        s \in {<<"5">>, <<"x">>}, c \in {<<"0">>, <<"2">>, <<"+", "3">>}}
    \cup {OtherName \o <<":", "7", ":", "2">>, UserName \o <<":", "7", ":", "2", ":">>,
          UserName \o <<":", "5">>, << >>}

SubidFiles == UNION {[1..n -> SubidLines] : n \in 0..MaxLines}

\* find_subid's results.
SubidErr == <<-1>>

RECURSIVE find_subid_from(_, _, _)
\* The loop of find_subid from line i on: the first line with three or more
\* parts whose first part is the user's name decides.
find_subid_from(file, name, i) ==
    IF i > Len(file) THEN << >>
    ELSE LET parts == split(file[i], ":", << >>) IN
         IF Len(parts) >= 3 /\ parts[1] = name
         THEN LET start == from_str(parts[2]) IN
              IF start = -1 THEN SubidErr
              ELSE LET size == from_str(parts[3]) IN
                   IF size = -1 THEN SubidErr ELSE <<start, size>>
         ELSE find_subid_from(file, name, i + 1)

\* find_subid(path, user): <<start, size>>, << >> for None, SubidErr for Err
\* (the file cannot be opened, or a field of the entry is not a number).
find_subid(file, present, name) ==
    IF ~present THEN SubidErr ELSE find_subid_from(file, name, 1)

\* Init: the two files, whether each can be opened, and whether the password
\* database knows the calling uid.
SubidInit ==
    /\ LaunchInit([network_manager |-> FALSE])
    /\ SideOff({"subid"})
    /\ \E uf \in SubidFiles, gf \in SubidFiles, missing \in {"none", "subuid", "subgid"},
          known \in BOOLEAN :
        /\ known \/ missing = "none"
        /\ subid = [pc |-> "new", subuid |-> uf, subgid |-> gf, missing |-> missing,
                 known |-> known, ctor |-> "none", result |-> "none",
                 uid_map |-> << >>, gid_map |-> << >>]

\* BinNewIdMapper::new_root(uid, gid) and ProcUserMapper::new_root(uid, gid).
SubidNewRoot ==
    /\ subid.pc = "new"
    /\ subid' = [subid EXCEPT !.pc = "done", !.ctor = "new_root", !.result = "Ok",
                              !.uid_map = <<new_root(1000)>>,
                              !.gid_map = <<new_root(1000)>>]
    /\ UNCHANGED <<launchVars, sio, wire, guards, life, mgr, task, ctl, cred, flow, ends,
                   mnt, store>>

\* BinNewIdMapper::new_root_subid(uid, gid).
SubidNewRootSubid ==
    /\ subid.pc = "new"
    /\ LET u == find_subid(subid.subuid, subid.missing # "subuid", UserName)
           g == find_subid(subid.subgid, subid.missing # "subgid", UserName) IN
       IF ~subid.known \/ u = SubidErr \/ g = SubidErr
       THEN subid' = [subid EXCEPT !.pc = "done", !.ctor = "new_root_subid",
                                   !.result = "Err"]
       ELSE subid' = [subid EXCEPT !.pc = "done", !.ctor = "new_root_subid",
                                   !.result = "Ok",
                                   !.uid_map = get_id_subid_map(1000, u),
                                   !.gid_map = get_id_subid_map(1000, g)]
    /\ UNCHANGED <<launchVars, sio, wire, guards, life, mgr, task, ctl, cred, flow, ends,
                   mnt, store>>

SubidNext ==
    \/ SubidNewRoot
    \/ SubidNewRootSubid

SubidSpec == SubidInit /\ [][SubidNext]_vars

\* The IdMap invariant: every range has size >= 1, and no two ranges of the
\* map share a container id.
IdMapInvariant(id_map) ==
    /\ \A i \in 1..Len(id_map) : id_map[i].size >= 1
    /\ \A i, j \in 1..Len(id_map) :
        i < j => \/ id_map[i].container_id + id_map[i].size <= id_map[j].container_id
                 \/ id_map[j].container_id + id_map[j].size <= id_map[i].container_id

\* The lines of a file that are entries of the user.
Matching(file) ==
    {i \in 1..Len(file) : Len(split(file[i], ":", << >>)) >= 3 /\ split(file[i], ":", << >>)[1] = UserName}

\* The map the entries of a file stand for: the root range alone without an
\* entry, the root range and the range of the first entry otherwise.
ExpectedMap(file) ==
    IF Matching(file) = {} THEN <<new_root(1000)>>
    ELSE LET k == CHOOSE i \in Matching(file) : \A j \in Matching(file) : i <= j
             parts == split(file[k], ":", << >>) IN
         <<new_root(1000),
           [container_id |-> 1, host_id |-> from_str(parts[2]), size |-> from_str(parts[3])]>>

\* ------------------------------------------------------ create_container
\* Manager::create_container on the directories it works on: the cgroup
\* directory and the state directory of each container id, the latter with
\* its rootfs, diff and work subdirectories.

\* Number of container ids in use.
MaxIds == 2
ContainerIds == 1..MaxIds

\* A cgroup directory is "absent", "empty", or "busy" (a process of a started
\* container is in it: rmdir fails).

\* The directories of a container's state directory.
StateParts == {"dir", "rootfs", "diff", "work"}

\* The calls of create_container that the environment can fail (EACCES,
\* ENOSPC, EIO), in code order.
CreateSteps == <<"remove_cgroup", "create_cgroup", "create_state", "rootfs", "diff", "work">>

\* create_container(id) on directories d = [cgroup, state], with the
\* environment failing step `fail` if the call gets there: the directories
\* afterwards and the result.
create_container(d, id, fail) ==
    LET \* ignore_kind(remove_dir(&cgroup_path), NotFound)?
        removed == [d EXCEPT !.cgroup[id] = "absent"]
        \* create_dir(&cgroup_path)?
        made == [removed EXCEPT !.cgroup[id] = "empty"]
        \* create_dir(&state_path) failed: let _ = remove_dir(cgroup_path)
        undone == [made EXCEPT !.cgroup[id] = "absent"]
        \* create_dir(&state_path)
        stated == [made EXCEPT !.state[id] = {"dir"}]
        rootfs == [stated EXCEPT !.state[id] = @ \cup {"rootfs"}]
        diff == [rootfs EXCEPT !.state[id] = @ \cup {"diff"}]
        work == [diff EXCEPT !.state[id] = @ \cup {"work"}]
    IN  IF d.cgroup[id] = "busy" \/ (d.cgroup[id] = "empty" /\ fail = "remove_cgroup")
            THEN [dirs |-> d, result |-> "Err"]
        ELSE IF fail = "create_cgroup" THEN [dirs |-> removed, result |-> "Err"]
        ELSE IF d.state[id] # {} \/ fail = "create_state"
            THEN [dirs |-> undone, result |-> "Err"]
        ELSE IF fail = "rootfs" THEN [dirs |-> stated, result |-> "Err"]
        ELSE IF fail = "diff" THEN [dirs |-> rootfs, result |-> "Err"]
        ELSE IF fail = "work" THEN [dirs |-> diff, result |-> "Err"]
        ELSE [dirs |-> work, result |-> "Ok"]

NoCreate == [id |-> 0, result |-> "none", fail |-> "none",
             before |-> [cgroup |-> << >>, state |-> << >>], existing |-> {}]

\* Init: a manager that has created no container yet.
StoreInit ==
    /\ LaunchInit([network_manager |-> FALSE])
    /\ SideOff({"store"})
    /\ store = [pc |-> "on",
                dirs |-> [cgroup |-> [i \in ContainerIds |-> "absent"],
                          state |-> [i \in ContainerIds |-> {}]],
                created |-> {}, last |-> NoCreate]

\* Manager::create_container(id, config).
StoreCreateContainer ==
    /\ store.pc = "on"
    /\ \E id \in ContainerIds, fail \in {"none"} \cup {CreateSteps[i] : i \in DOMAIN CreateSteps} :
        LET r == create_container(store.dirs, id, fail) IN
        store' = [store EXCEPT
                    !.dirs = r.dirs,
                    !.created = IF r.result = "Ok" THEN @ \cup {id} ELSE @,
                    !.last = [id |-> id, result |-> r.result, fail |-> fail,
                              before |-> store.dirs, existing |-> store.created]]
    /\ UNCHANGED <<launchVars, sio, wire, guards, life, mgr, task, ctl, cred, flow, ends,
                   mnt, subid>>

\* A created container is started: its init process is in its cgroup.
StoreStart ==
    /\ store.pc = "on"
    /\ \E id \in store.created :
        /\ store.dirs.cgroup[id] = "empty"
        /\ store' = [store EXCEPT !.dirs.cgroup[id] = "busy", !.last = NoCreate]
    /\ UNCHANGED <<launchVars, sio, wire, guards, life, mgr, task, ctl, cred, flow, ends,
                   mnt, subid>>

\* The init process of a started container ends and is reaped.
StoreInitGone ==
    /\ store.pc = "on"
    /\ \E id \in store.created :
        /\ store.dirs.cgroup[id] = "busy"
        /\ store' = [store EXCEPT !.dirs.cgroup[id] = "empty", !.last = NoCreate]
    /\ UNCHANGED <<launchVars, sio, wire, guards, life, mgr, task, ctl, cred, flow, ends,
                   mnt, subid>>

StoreNext ==
    \/ StoreCreateContainer
    \/ StoreStart
    \/ StoreInitGone

CreateContainerSpec == StoreInit /\ [][StoreNext]_vars

\* ------------------------------------------------------------- properties
StepNames(steps) == {steps[i] : i \in 1..Len(steps)}

\* The process has gone past the handshake: it is at, or has attempted, a step
\* of the in-namespace block, or anything after it.
Began(r) ==
    \/ r.pc \in StepNames(InitSteps) \cup StepNames(ExecSteps)
               \cup {"write_result", "cstring", "execvpe", "payload"}
    \/ r.done # {}
    \/ ~r.res.ok
    \/ r.frame # "none"
    \/ r.execd

\* The cgroup a launch with leaf request l belongs in.
Home(l) == IF l = << >> THEN ContainerCgroup ELSE l

\* The start call that began in this step, seen from the step's end.
\* (Primed: used inside action formulas only.)
Unmapped(user) ==
    \/ ~is_id_mapped(user_mapper.uid_map, user[1])
    \/ ~is_id_mapped(user_mapper.gid_map, user[2])

\* C1: the init child performs no in-namespace step before the parent's
\* run_map_user has returned Ok: every init child that is past read_ok has its
\* user namespace mapped, and the go byte is on the pipe only after the mapping.
C1_MappedBeforeSetup ==
    /\ \A p \in Pids : IsInit(p) /\ Began(procs[p]) => procs[p].mapped
    /\ Len(buf["go"]) > 0 => call.op = "init" /\ procs[call.child].mapped
    /\ ret.op = "init" /\ Began(ret.snap) => ret.snap.mapped

C1_Witness ==
    \E p \in Pids : IsInit(p) /\ procs[p].pc = "setup_mount_namespace" /\ procs[p].mapped

\* C2: start_init returns Ok only after the init child has completed every
\* applicable setup step (set_network exactly when a network plan exists) and
\* has written the success frame.
C2_OkAfterSetup ==
    ret.op = "init" /\ ret.status = "Ok" =>
        /\ ret.snap.net = container.network_manager
        /\ ret.snap.done = StepSet(InitSteps, container.network_manager)
        /\ ret.snap.res.ok
        /\ ret.snap.frame = "ok"

C2_Witness ==
    /\ ret.op = "init" /\ ret.status = "Ok"
    /\ "set_network" \in ret.snap.done /\ "set_user" \in ret.snap.done

\* A host-side step of start_init has failed after clone3.
HostFailed == call.op = "init" /\ call.pc = "reap"

\* C3: after a host-side failure that follows clone3, start_init eventually
\* returns Err, and whenever it has returned Err for a call that created a
\* child, that child had terminated and has been reaped.
C3_FailureReaps ==
    /\ [](ret.op = "init" /\ ret.status = "Err" /\ ret.child # NoPid =>
            /\ procs[ret.child].role = "reaped"
            /\ ret.childStatus # Running)
    /\ (HostFailed ~> (call.op = "idle" /\ ret.op = "init" /\ ret.status = "Err"
                          /\ ret.child # NoPid))

C3_Witness ==
    /\ ret.op = "init" /\ ret.status = "Err" /\ ret.err.at = "run_map_user"
    /\ procs[ret.child].role = "reaped" /\ ret.childStatus = Exited(1)

\* C4: when a setup step of the init child fails with error e, the child
\* writes an error frame, exits with status 1 and never execs, and start_init
\* returns Err whose message is e.to_string().
C4_StepErrorReported ==
    /\ \A p \in Pids :
          IsInit(p) /\ ~procs[p].res.ok /\ procs[p].pc \in {"exit", "exited"} =>
              /\ procs[p].frame = "err"
              /\ procs[p].pc = "exited" => procs[p].status = Exited(1)
              /\ ~procs[p].execd
    /\ ret.op = "init" /\ ~ret.snap.res.ok =>
          /\ ret.status = "Err"
          /\ ret.err.kind = "child"
          /\ ret.err.msg = ret.snap.res.msg
          /\ ret.snap.frame = "err"
          /\ ret.childStatus = Exited(1)

C4_Witness ==
    /\ ret.op = "init" /\ ret.status = "Err" /\ ret.err.kind = "child"
    /\ ret.err.msg = InitPrefix("set_user") \o <<69>>

\* C5: an init child that ends with a non-zero exit status without having
\* exec'd the payload has written an error frame.
C5_NonZeroExitHasFrame ==
    \A p \in Pids :
        /\ IsInit(p)
        /\ procs[p].status.tag = "Exited" /\ procs[p].status.code # 0
        /\ ~procs[p].execd
        => procs[p].frame = "err"

\* C6: when start_exec returns Ok, the pid it returns is the process the
\* intermediate cloned, that process is a child of the caller, and the
\* intermediate has exited and been reaped.
C6_ReturnsGrandchild ==
    ret.op = "exec" /\ ret.status = "Ok" =>
        /\ ret.pid = ret.sibling /\ ret.pid \in Pids
        /\ ret.snap.role = "grand"
        /\ ret.snap.by = ret.child
        /\ ret.snap.ppid = Caller
        /\ ret.pid \in handles
        /\ procs[ret.child].role = "reaped"
        /\ ret.childStatus.tag = "Exited"

C6_Witness ==
    /\ ret.op = "exec" /\ ret.status = "Ok"
    /\ procs[ret.pid].pc = "payload" /\ procs[ret.pid].ppid = Caller

\* C7: start_exec returns Ok only if the grandchild completed all of its steps
\* and wrote the success frame; the intermediate writes the pid before it
\* reads the frame, and its exit status is 0 exactly when the frame it read is
\* the success frame, which is exactly when start_exec returns Ok.
C7_ExecOkAfterSetup ==
    /\ ret.op = "exec" /\ ret.status = "Ok" =>
          /\ ret.snap.done = StepNames(ExecSteps)
          /\ ret.snap.frame = "ok"
    /\ ret.op = "exec" /\ ret.child # NoPid =>
          (ret.status = "Ok" <=> ret.childStatus = Exited(0))
    /\ \A m \in Pids : procs[m].role = "mid" =>
          /\ procs[m].pc = "read_result" =>
                \/ buf["pid"] = pid_frame(Kid(m))
                \/ call.sibling = Kid(m)
          /\ procs[m].status = Exited(0) =>
                /\ procs[Kid(m)].frame = "ok"
                /\ procs[Kid(m)].done = StepNames(ExecSteps)

C7_Witness ==
    /\ ret.op = "exec" /\ ret.status = "Ok"
    /\ ret.snap.done = StepNames(ExecSteps) /\ ret.childStatus = Exited(0)

\* C8: a start call whose uid or gid is not mapped returns an error in the
\* same step with no side effect (no cgroup directory, descriptor, pipe or
\* process appears), and the error names the uid when the uid is unmapped,
\* else the gid, whatever the cgroup name is.
C8_PreflightNoSideEffects ==
    [][ncalls' = ncalls + 1 =>
          LET req == IF call'.op = "idle" THEN ret'.req ELSE call'.req IN
          Unmapped(req.user) =>
              /\ call'.op = "idle"
              /\ ret'.status = "Err"
              /\ UNCHANGED <<procs, nextPid, fds, buf, cgroupDirs, containerPid, handles>>
              /\ ret'.err.at # "already_started" =>
                    ret'.err.at = IF ~is_id_mapped(user_mapper.uid_map, req.user[1])
                                     THEN "uid" ELSE "gid"
       ]_vars

C8_Witness ==
    /\ ret.op = "exec" /\ ret.status = "Err" /\ ret.err.at = "gid"
    /\ ret.req.name = <<"/", "leaf">>

\* C9: starting an init on a container whose init pid is recorded fails in
\* the same step, creates no process and leaves the recorded pid as it was;
\* the recorded pid changes only from None to the pid a successful start
\* returns, and a failed start leaves it unchanged.
C9_StartOnce ==
    [][LET op == IF call'.op = "idle" THEN ret'.op ELSE call'.op IN
       /\ ncalls' = ncalls + 1 /\ op = "init" /\ containerPid # NoPid =>
             /\ call'.op = "idle"
             /\ ret'.status = "Err" /\ ret'.err.at = "already_started"
             /\ UNCHANGED <<procs, nextPid, fds, cgroupDirs, containerPid>>
       /\ containerPid' # containerPid =>
             /\ containerPid = NoPid
             /\ ret'.op = "init" /\ ret'.status = "Ok"
             /\ containerPid' = ret'.pid /\ ret'.pid \in Pids
       /\ ret' # ret /\ ret'.op = "init" /\ ret'.status = "Ok" =>
             containerPid' = ret'.pid
       /\ ret' # ret /\ ret'.op = "init" /\ ret'.status = "Err" =>
             containerPid' = containerPid
      ]_vars

C9_Witness ==
    /\ ret.op = "init" /\ ret.status = "Err" /\ ret.err.at = "already_started"
    /\ containerPid # NoPid

\* C10: a process launched with cgroup name N is in the leaf container_cgroup/N
\* (in the container cgroup when no name was given) when its start call
\* returns Ok and whenever it runs the payload; the init child is in its leaf
\* from the moment it gets past read_ok.
C10_InLeafCgroup ==
    /\ \A p \in Pids :
          /\ procs[p].role \in {"init", "grand"} /\ procs[p].pc = "payload" =>
                /\ procs[p].cgroup = Home(procs[p].leaf)
                /\ procs[p].cgroup \in cgroupDirs
          /\ IsInit(p) /\ Began(procs[p]) => procs[p].cgroup = Home(procs[p].leaf)
    /\ ret.status = "Ok" =>
          /\ ret.snap.leaf = ret.leaf
          /\ ret.snap.cgroup = IF ret.req.name = << >> THEN ContainerCgroup
                               ELSE ContainerCgroup \o ret.req.name

C10_Witness ==
    \E p \in Pids :
        /\ procs[p].role = "grand" /\ procs[p].pc = "payload"
        /\ procs[p].cgroup = ContainerCgroup \o <<"leaf">>
        /\ ret.op = "exec" /\ ret.status = "Ok" /\ ret.pid = p

\* The process holds an open descriptor for one of the files.
SioHolds(p, files) == \E n \in Fds : sio.tab[p][n] \in files

\* C11: after the stdio step the launched process's descriptors 0, 1 and 2
\* refer to the files supplied for stdin, stdout and stderr, and to /dev/null
\* for each unset slot, whatever the numbers of the supplied descriptors are.
C11_StdioRefersToSupplied ==
    sio.after # << >> =>
        \A i \in 1..3 :
            sio.after[i] = IF sio.stdio[i] = NoFd THEN "null" ELSE SlotFile[i]

\* C12: when a start call has returned, the caller holds no descriptor for a
\* supplied stdio file or for /dev/null, the intermediate of an exec launch
\* has exited, and no helper program inherited such a descriptor; so once the
\* launched process is gone as well, nobody holds the supplied files and a
\* reader on the other end sees end of file.
C12_NoStdioLeft ==
    /\ ~SioHolds("helper", StdioFiles)
    /\ sio.ret # "none" =>
          /\ ~SioHolds("caller", StdioFiles)
          /\ sio.mpc \in {"none", "exited"} /\ sio.tab["mid"] = NoTable
          /\ sio.cpc \in {"none", "exited"} =>
                \A p \in SioProcs : ~SioHolds(p, StdioFiles)

C12_Witness ==
    /\ sio.ret = "Ok" /\ sio.kind = "exec" /\ sio.cpc = "exited"
    /\ sio.stdio[2] # NoFd /\ sio.dev_null # NoFd

\* C13: a result round-trips over the pipe.  Whenever read_result has returned,
\* it returned Ok(Ok(())) for a written Ok(()) and Ok(Err(e')) with the message
\* of e for a written Err(e), the empty message included; the bytes it took are
\* exactly the frame (a tag byte 0, or a tag byte 1, the message length as 8
\* little-endian bytes and the message bytes), and later bytes stay in the pipe.
C13_FrameRoundTrip ==
    wire.rpc = "done" =>
        LET frame == Take(wire.sent, wire.taken)
            bytes == as_bytes(wire.res.msg)
        IN  /\ wire.out.kind = IF wire.res.ok THEN "ok" ELSE "err"
            /\ wire.out.msg = wire.res.msg
            /\ wire.sent = frame \o wire.buf
            /\ frame = result_frame(to_wire(wire.res))
            /\ frame[1] = IF wire.res.ok THEN 0 ELSE 1
            /\ wire.res.ok => Len(frame) = 1
            /\ ~wire.res.ok =>
                  /\ Len(frame) = 1 + UsizeBytes + Len(bytes)
                  /\ from_le_bytes(SubSeq(frame, 2, 1 + UsizeBytes)) = Len(bytes)
                  /\ Drop(frame, 1 + UsizeBytes) = bytes

C13_Witness ==
    /\ wire.rpc = "done" /\ wire.out.kind = "err" /\ wire.out.msg = <<233, 0>>
    /\ wire.buf = <<1, 0>>

\* C14: over the lifetime of an OwnedPid exactly one of three things happens:
\* into_raw consumes it and the guard makes no waitpid call, wait_success
\* consumes it with one waitpid call, or it is dropped unconsumed with one
\* waitpid call.  A guard never waits twice, and one that is gone is disarmed
\* and, unless into_raw released the pid, has reaped its child.
C14_OwnedPidOnce ==
    \A i \in GuardIds :
        LET g == guards.g[i] IN
        /\ g.waits <= 1
        /\ g.state = "live" => g.slot = i /\ g.waits = 0 /\ g.end = "none"
        /\ g.state = "gone" =>
              /\ g.slot = NoPid
              /\ g.end \in {"into_raw", "wait_success", "drop"}
              /\ g.waits = IF g.end = "into_raw" THEN 0 ELSE 1
              /\ guards.kid[i].reaped <=> g.end # "into_raw"
              /\ g.end = "into_raw" => g.raw = i
              /\ g.end = "wait_success" =>
                    (g.res = "Ok" <=> guards.kid[i].status = Exited(0))

C14_Witness ==
    /\ guards.g[1].end = "into_raw" /\ guards.kid[1].status = Running
    /\ guards.g[2].end = "drop" /\ guards.kid[2].reaped

\* C15: Container::destroy attempts all three steps (the kill, the removal of
\* the state directory, the rmdir of the cgroup) whichever of them failed; it
\* returns Ok only when all three succeeded, and otherwise the error of the
\* first failing step in the order kill, remove_state, remove_dir.
C15_DestroyAllSteps ==
    (life.pc = "on" /\ life.last.op = "destroy") =>
        LET l == life.last IN
        /\ {"cgroup.kill", "remove_state", "remove_dir"} \subseteq l.steps
        /\ l.kill # "none" /\ l.state # "none" /\ l.cgroup # "none"
        /\ (l.result = "Ok") <=> (l.kill = "Ok" /\ l.state = "Ok" /\ l.cgroup = "Ok")
        /\ l.result = "Err" =>
            l.first = (IF l.kill = "Err" THEN "kill"
                       ELSE IF l.state = "Err" THEN "remove_state" ELSE "rmdir")

\* destroy whose kill failed went on, removed the state directory and failed
\* again at the rmdir: the error returned is the kill's.
C15_Witness ==
    /\ life.pc = "on" /\ life.last.op = "destroy" /\ life.last.returned
    /\ life.last.kill = "Err" /\ life.last.state = "Ok" /\ ~life.state_dir
    /\ life.last.cgroup = "Err" /\ life.last.first = "kill"

\* C16: once destroy has returned Ok, neither the cgroup directory nor the
\* state directory of the container exists.
C16_DestroyOkRemovesAll ==
    (life.pc = "on" /\ life.last.op = "destroy" /\ life.last.returned
     /\ life.last.result = "Ok")
        => (ContainerCgroup \notin cgroupDirs /\ ~life.state_dir)

\* C17: kill, alone or inside destroy, succeeds when the init process was
\* already reaped elsewhere: the ECHILD of the wait is ignored, the recorded
\* pid is cleared, and kill is Ok exactly when the write to cgroup.kill worked.
C17_KillAfterReap ==
    (life.pc = "on" /\ life.last.op \in {"kill", "destroy"}) =>
        LET l == life.last IN
        /\ l.echild => (l.kill = "Ok" /\ l.pid_after = NoPid)
        /\ l.kill = "Ok" => l.pid_after = NoPid
        /\ (l.op = "kill" /\ l.echild) => l.result = "Ok"
        /\ (l.op = "kill" /\ l.kill = "Err") => (l.result = "Err" /\ l.pid_after = l.init)

\* kill returned Ok although the wait on the recorded init pid found no child.
C17_Witness ==
    /\ life.pc = "on" /\ life.last.op = "kill" /\ life.last.had_pid
    /\ life.last.echild /\ life.last.result = "Ok" /\ containerPid = NoPid

\* C18: dropping a container whose pid is set writes the kill switch, waits on
\* the init pid and clears the pid, whatever fails, without a panic; dropping
\* one whose pid is None does neither.
C18_DropContainer ==
    (life.pc = "on" /\ life.last.op = "drop" /\ life.last.returned) =>
        LET l == life.last IN
        /\ l.had_pid => /\ l.steps = {"cgroup.kill", "waitpid"}
                        /\ ~Waitable(procs, l.init)
        /\ ~l.had_pid => l.steps = {}
        /\ containerPid = NoPid
        /\ ~l.panicked /\ l.result = "Ok"

\* A drop with the pid set whose write to cgroup.kill failed has still waited
\* for the init process and returned.
C18_Witness ==
    /\ life.pc = "on" /\ life.last.op = "drop" /\ life.last.returned
    /\ life.last.had_pid /\ life.last.kill = "Err"
    /\ procs[life.last.init].role = "reaped"

\* C19: every user mapper accepted at construction of the manager maps uid 0
\* if it maps more than one uid, and gid 0 if it maps more than one gid; a
\* mapper violating either condition is rejected with an error.
C19_AcceptedMapperHasRoot ==
    (mgr.pc = "done" /\ mgr.env = "ok") =>
        LET bad == \/ MapsMany(mgr.uid_map) /\ ~MapsId(mgr.uid_map, 0)
                   \/ MapsMany(mgr.gid_map) /\ ~MapsId(mgr.gid_map, 0)
        IN /\ mgr.result = "Ok" => ~bad
           /\ bad => mgr.result = "Err"

\* C20: in run_as_root / run_as_user the closure executes in the child only
\* after the parent's run_map_user returned Ok and write_ok was sent; the call
\* returns Ok if and only if the closure ran and returned Ok; it returns an
\* Err carrying the closure's message when the closure returned Err; and the
\* child has been reaped whenever the call has returned.
C20_RunAsUser ==
    task.pc = "on" =>
        /\ task.ran => (task.ran_mapped /\ task.ran_go = "sent")
        /\ task.ppc = "returned" =>
            /\ (task.ret = "Ok") <=> (task.ran /\ task.func_ret = "Ok")
            /\ (task.ran /\ task.func_ret = "Err") =>
                (task.ret = "Err" /\ \E i \in 1..Len(task.msg) : task.msg[i] = ClosureMsg)
            /\ task.child_at_ret \in {"none", "reaped"}
            /\ task.child.state \in {"none", "reaped"}
            /\ task.waits = IF task.child.state = "none" THEN 0 ELSE 1

\* The closure ran and returned Err: the call has returned that message and
\* the child is reaped.
C20_Witness ==
    /\ task.pc = "on" /\ task.ppc = "returned" /\ task.ran /\ task.func_ret = "Err"
    /\ task.ret = "Err" /\ task.msg[Len(task.msg)] = ClosureMsg
    /\ task.child.state = "reaped"

\* C21: on a cgroup whose cgroup.subtree_control is empty,
\* add_subtree_controllers([A,B,C]) writes the single string " +A +B +C" and
\* afterwards subtree_controllers() returns exactly the set {A,B,C} (equal to
\* [A,B,C] after sorting); on a fresh cgroup it returns the empty list.
C21_SubtreeControllers ==
    /\ ctl.read = "fresh" => ctl.got = << >>
    /\ ctl.added = "Ok" =>
        /\ Len(ctl.wrote) = 3 * Len(ctl.arg)
        /\ \A i \in 1..Len(ctl.arg) :
              SubSeq(ctl.wrote, 3 * i - 2, 3 * i) = <<" ", "+", ctl.arg[i]>>
        /\ ctl.read = "after" =>
            /\ {ctl.got[i] : i \in 1..Len(ctl.got)} = {ctl.arg[i] : i \in 1..Len(ctl.arg)}
            /\ Len(ctl.got) = Cardinality({ctl.arg[i] : i \in 1..Len(ctl.arg)})
            /\ (\A i, j \in 1..Len(ctl.arg) : i # j => ctl.arg[i] # ctl.arg[j])
                  => sort(ctl.got) = sort(ctl.arg)

\* Three controllers were added in an order that is neither the kernel's nor
\* the sorted one, and read back.
C21_Witness ==
    /\ ctl.added = "Ok" /\ ctl.read = "after"
    /\ ctl.arg = <<"pids", "cpu", "cpuset">>
    /\ ctl.wrote = <<" ", "+", "pids", " ", "+", "cpu", " ", "+", "cpuset">>
    /\ ctl.got = <<"cpuset", "cpu", "pids">>
    /\ sort(ctl.got) = <<"cpu", "cpuset", "pids">>

\* The order of the host-side steps of the parent branch of start_init.
HostOrder == <<"run_map_user", "add_process", "run_network", "write_ok", "read_result">>

\* C22: in the parent branch of start_init the host-side steps occur strictly
\* in the order run_map_user, add_process into the leaf cgroup (if named),
\* run_network, write_ok, read_result, disarm of the OwnedPid; a failing step
\* prevents every later step, so write_ok is never sent after a failed
\* mapping, cgroup placement or network start, and the OwnedPid is disarmed
\* only after a success frame was read.
C22_HostStepOrder ==
    [][/\ (call.op = "idle" /\ call'.op = "init") => call'.pc = HostOrder[1]
       /\ (call.op = "init" /\ call' # call) =>
            \/ /\ call'.op = "init" /\ call'.err = NoError /\ call.err = NoError
               /\ \E i \in 1..(Len(HostOrder) - 1) :
                     call.pc = HostOrder[i] /\ call'.pc = HostOrder[i + 1]
            \/ /\ call'.op = "init" /\ call'.pc = "reap" /\ call'.err # NoError
               /\ call.err = NoError /\ call.pc # "reap"
               /\ buf'["go"] = buf["go"] /\ handles' = handles
            \/ /\ call'.op = "idle" /\ call.pc = "read_result" /\ call.err = NoError
               /\ ret'.status = "Ok" /\ ret'.snap.frame = "ok"
               /\ handles' = handles \cup {call.child}
            \/ /\ call'.op = "idle" /\ call.pc = "reap"
               /\ ret'.status # "Ok" /\ handles' = handles
       /\ (call.op = "init" /\ procs'[call.child].mapped /\ ~procs[call.child].mapped)
            => call.pc = "run_map_user"
       /\ (call.op = "init" /\ procs'[call.child].cgroup # procs[call.child].cgroup
           /\ procs'[call.child].role = "init")
            => (call.pc = "add_process" /\ procs[call.child].mapped)
       /\ (Helper \in fds'["go_tx"] /\ Helper \notin fds["go_tx"])
            => (call.pc = "run_network" /\ procs[call.child].mapped
                /\ procs[call.child].cgroup = Home(call.leaf))
       /\ Len(buf'["go"]) > Len(buf["go"])
            => (call.op = "init" /\ call.pc = "write_ok" /\ call.err = NoError
                /\ procs[call.child].mapped /\ procs[call.child].cgroup = Home(call.leaf)
                /\ call.net = container.network_manager)
       /\ (handles' # handles /\ call.op = "init")
            => (call.pc = "read_result" /\ read_result(buf["res"]).kind = "ok")
      ]_vars

\* The network start failed after the mapping and the cgroup placement: the
\* parent is about to reap the child and the go byte was never sent.
C22_Witness ==
    /\ call.op = "init" /\ call.pc = "reap" /\ call.err.at = "run_network"
    /\ procs[call.child].mapped /\ call.leaf # << >>
    /\ procs[call.child].cgroup = call.leaf
    /\ buf["go"] = << >> /\ procs[call.child].pc = "read_ok"

\* C23: in the init child the steps run in the order: mount-namespace setup
\* ending in pivot_root, sethostname, set_network, stdio dup2, close-exec-from
\* 3, chdir(work_dir), set_user, execvpe; set_user is the last step before
\* execvpe; inside set_user setgroups (when performed) precedes setgid, which
\* precedes setuid; and a failing step prevents all later steps.
C23_InitChildOrder ==
    LET order == <<"remount_private_root", "mount", "pivot_root", "sethostname",
                   "set_network", "dup2_stdin", "dup2_stdout", "dup2_stderr",
                   "close_exec_from", "chdir", "setgroups", "setgid", "setuid",
                   "execvpe">>
        optional == {"set_network", "setgroups"}
    IN
    /\ \A i, j \in 1..Len(order) :
          (i < j /\ At(order[j]) > 0) =>
              /\ At(order[i]) < At(order[j])
              /\ order[i] \notin optional => At(order[i]) > 0
    /\ At("sethostname") > 0 => At("pivot_root") = At("sethostname") - 1
    /\ At("chdir") > 0 => (At("set_network") > 0 <=> cred.net)
    /\ At("setgid") > 0 => (At("setgroups") > 0 <=> cred.kind # "proc")
    /\ At("execvpe") > 0 =>
          /\ \A i \in (At("setuid") + 1)..(At("execvpe") - 1) :
                cred.log[i] \in {"write_result", "cstring"}
          /\ cred.euid = cred.user[1] /\ cred.egid = cred.user[2]
          /\ cred.failed = "none" /\ cred.ended = "exec"
    /\ cred.failed # "none" =>
          /\ cred.ended = "exit" /\ At(cred.failed) = 0 /\ At("execvpe") = 0
          /\ \A i, j \in 1..Len(order) :
                (order[i] = cred.failed /\ i < j) => At(order[j]) = 0

\* An init child with a network manager and BinNewIdMapper has exec'd as uid
\* and gid 1000 after every call of the block.
C23_Witness ==
    /\ cred.ended = "exec" /\ cred.net /\ cred.kind = "bin"
    /\ cred.euid = 1000 /\ cred.egid = 1000 /\ cred.groups = "set"
    /\ At("set_network") > 0 /\ At("setgroups") > 0

\* C24: a launched process (init child, exec grandchild) never holds the
\* cgroup directory descriptor once it runs its own code; when it calls
\* execvpe, close_exec_from(3) has marked every descriptor it still holds, so
\* the payload starts with none of the launch's descriptors (only 0, 1, 2).
C24_NoDescriptorLeak ==
    \A p \in Pids : procs[p].role \in {"init", "grand"} =>
        /\ p \notin fds["cgroup_file"]
        /\ procs[p].pc = "execvpe" => "close_exec_from" \in procs[p].done
        /\ procs[p].execd => \A k \in FdKinds : p \notin fds[k]

\* An exec grandchild runs its payload, and held descriptors of the launch
\* when it called execvpe.
C24_Witness ==
    \E p \in Pids :
        /\ IsGrand(p) /\ procs[p].pc = "payload" /\ procs[p].execd
        /\ "close_exec_from" \in procs[p].done
        /\ call.op = "exec" /\ call.sibling = p

\* C25: a process created by clone3 or fork inside start_init, start_exec or
\* run_as_user never returns into the caller's code: whatever point of its
\* closure control leaves at, by an error or by a panic, the process ends in
\* execvpe or in _exit, and until then it always has a next step towards one.
C25_ChildNeverReturns ==
    /\ flow.at \in {"closure", "exit_child", "catch_unwind", "ended"}
    /\ flow.end.tag \in {"Running", "Exited", "Execd"}
    /\ flow.at = "ended" <=> flow.end # Running
    /\ flow.at # "ended" => ENABLED FlowNext
    /\ flow.end.tag = "Execd" => flow.site \in {"init", "grand"} /\ flow.cause = "execvpe"

\* The exec grandchild's closure returned an Err out of catch_unwind and the
\* process ended in _exit.
C25_Witness ==
    /\ flow.site = "grand" /\ flow.how = "Err" /\ flow.cause = "filename"
    /\ flow.at = "ended" /\ flow.end.tag = "Exited"

\* C26: the init child exits with status 1 on any panic and on any early
\* error (failed read_ok, failed setup step, NUL byte in argv or envp), and
\* with status 2 exactly when execvpe returned.
C26_InitExitStatus ==
    (flow.site = "init" /\ flow.at = "ended" /\ flow.end.tag = "Exited") =>
        flow.end.code = IF flow.cause = "execvpe" /\ flow.how = "Err" THEN 2 ELSE 1

\* C27: in the exec launch, an intermediate that exits with status 1 after it
\* cloned the grandchild has reaped the grandchild before: no process it
\* cloned is then still running or an unreaped zombie.
C27_MidReapsGrandchild ==
    \A m, q \in Pids :
        (procs[m].role = "mid" /\ procs[m].status = Exited(1)) => procs[q].by # m

\* C28: when the exec grandchild's setup fails with error e, the error that
\* ProcessOptions::start returns carries the message of e that the grandchild
\* wrote on the internal pipe.
C28_ExecErrorCarriesMessage ==
    (ret.op = "exec" /\ ret.status = "Err" /\ ret.snap.role = "grand"
        /\ ret.snap.frame = "err") =>
        /\ ret.err.kind = "child"
        /\ ret.err.msg = ret.snap.res.msg

\* C29: a process about to block in a handshake read (read_ok, read_pid,
\* read_result) of start_init, start_exec or run_as_user holds no write end of
\* the pipe it reads, and has selected its direction on every pipe it holds
\* (it holds at most one end of each); so once the writing peer has exited or
\* dropped its writer the read cannot stay blocked: either no writer is left
\* at all, or the only ones left are in a process that closes its copy before
\* it makes any blocking call.
C29_ReadersHoldNoWriter ==
    \A p \in EndProcs :
        (EndsRunning(p) /\ EndsOp(p)[1] = "read") =>
            LET n == EndsOp(p)[2] IN
            /\ ~Holds(p, n, "tx") /\ Holds(p, n, "rx")
            /\ \A m \in EndPipes : ~(Holds(p, m, "rx") /\ Holds(p, m, "tx"))
            /\ ~Holds(Writer(ends.site, n), n, "tx") /\ ends.data[n] = 0 =>
                  \A q \in EndProcs : Holds(q, n, "tx") =>
                      /\ EndsRunning(q)
                      /\ EndsOp(q) \in {<<"drop_tx", n>>, <<"rx", n>>}

\* The intermediate of an exec launch is in read_result after its grandchild
\* was killed before writing a frame: no writer is left; the caller is in
\* read_pid.
C29_Witness ==
    /\ ends.site = "exec" /\ ends.run["grand"] = "exited"
    /\ EndsRunning("mid") /\ EndsOp("mid") = <<"read", "pipe">>
    /\ ends.data["pipe"] = 0 /\ \A q \in EndProcs : ~Holds(q, "pipe", "tx")
    /\ EndsRunning("caller") /\ EndsOp("caller") = <<"read", "pid_pipe">>

\* C30: both ends of every pipe new_pipe returns carry close-on-exec, so no
\* program the caller spawns during a launch (newuidmap, newgidmap, the
\* network helper) inherits a handshake or pid pipe end.
C30_PipesCloseOnExec ==
    /\ \A x \in ends.held : <<x[2], x[3]>> \in ends.cloexec
    /\ ends.leaked = {}
    /\ \A x \in ends.held : x[1] # "helper"

\* C31: setup_mount_namespace first makes / recursive slave, then private,
\* and binds the rootfs onto itself; then applies the container's mounts in
\* exactly their insertion order; then performs pivot_root.  When a step
\* fails no later mount is applied, pivot_root is not performed and the call
\* returns the error.
C31_MountOrder ==
    /\ mnt.root \in {"shared", "slave", "private"}
    /\ mnt.bound => mnt.root = "private"
    /\ \A i \in 1..Len(mnt.mounts) : Touched(i) =>
          /\ mnt.bound
          /\ \A j \in 1..(i - 1) : Applied(j)
    /\ \A k \in 1..(Len(mnt.mounted) - 1) : mnt.mounted[k][1] <= mnt.mounted[k + 1][1]
    /\ \A k \in 1..Len(mnt.mounted) :
          mnt.mounts[mnt.mounted[k][1]] = "base" =>
              \E t \in 1..Len(BaseTargets) :
                  /\ BaseTargets[t] = mnt.mounted[k][2]
                  /\ t > 1 => k > 1 /\ mnt.mounted[k - 1] = <<mnt.mounted[k][1], BaseTargets[t - 1]>>
    /\ mnt.pivoted => mnt.bound /\ \A i \in 1..Len(mnt.mounts) : Applied(i)
    /\ mnt.result = "Ok" =>
          mnt.pivoted /\ mnt.old_root = "detached" /\ mnt.cwd = "rootfs" /\ mnt.failed = NoCall
    /\ mnt.result = "Err" =>
          /\ mnt.failed # NoCall /\ mnt.cwd = "host" /\ ~ENABLED MntNext
          /\ mnt.failed.phase # "pivot_root" => ~mnt.pivoted
          /\ mnt.failed.phase = "mounts" =>
                \A i \in 1..Len(mnt.mounts) : i > mnt.failed.idx => ~Touched(i)
          /\ mnt.failed.phase = "remount" => mnt.mounted = << >>

\* Overlay then base mounts were applied and the root pivoted.
C31_Witness ==
    /\ mnt.mounts = <<"overlay", "base">> /\ mnt.result = "Ok"
    /\ Applied(1) /\ Applied(2) /\ mnt.pivoted

\* C32: is_uid_mapped(id) / is_gid_mapped(id) is true if and only if some
\* range r of the map has r.container_id <= id < r.container_id + r.size, the
\* sum taken without wrap-around, for all 32-bit values (ranges whose end
\* exceeds the largest u32 included), and the test never panics.
C32_IsIdMappedExact ==
    mgr.pc = "asked" =>
        LET id_map == IF mgr.which = "uid" THEN mgr.uid_map ELSE mgr.gid_map IN
        /\ mgr.answer # "panic"
        /\ mgr.answer = "true" <=> MapsId(id_map, mgr.id)

\* C33: every id map built by new_root or new_root_subid satisfies the IdMap
\* invariant (each range has size >= 1, no two ranges overlap on the
\* container side) whatever /etc/subuid and /etc/subgid hold, an entry with
\* count 0 included; with an entry of the user the map is the root range and
\* {1 -> start, count} of the first matching line, without one the root
\* range alone.
C33_SubidMapsValid ==
    (subid.pc = "done" /\ subid.result = "Ok") =>
        /\ IdMapInvariant(subid.uid_map)
        /\ IdMapInvariant(subid.gid_map)
        /\ subid.ctor = "new_root_subid" =>
            /\ subid.uid_map = ExpectedMap(subid.subuid)
            /\ subid.gid_map = ExpectedMap(subid.subgid)

\* C34: read_result treats a tag byte other than 0 or 1 as a protocol
\* violation: for such input it returns neither Ok(Ok(())) nor Ok(Err(_)),
\* and it returns an error value to its caller instead of panicking.
C34_UnknownTagIsError ==
    (wire.rpc = "done" /\ Len(wire.sent) > 0 /\ wire.sent[1] \notin {0, 1}) =>
        wire.out.kind \notin {"ok", "err", "panic"}

\* C35: the Direct user mapper's run_map_user(pid) returns Ok or Err to its
\* caller and never panics the host process; a start or run_as_user call
\* that uses it gets past the id mapping.
C35_DirectMapperReturns ==
    ends.mapper = "ProcUserMapper" => ends.run["caller"] # "panicked"

\* C36: in InitProcessOptions::start the network helper is started only after
\* the id mapping and the cgroup placement, and before the child is
\* unblocked; a call that returns Ok leaves the helper running with the
\* InitProcess, and whenever the call returns Err (or unwinds) after the
\* helper was started, the helper has been killed and reaped by then.
C36_NetworkHelperOwned ==
    ends.site = "init" =>
        /\ ends.run["helper"] # "none" =>
              /\ Did("caller", <<"spawn", "run_map_user">>)
              /\ Did("caller", <<"add_process", "cgroup">>)
              /\ Did("caller", <<"spawn", "run_network">>)
        /\ (ends.net /\ Did("caller", <<"write", "pipe">>)) => ends.run["helper"] # "none"
        /\ (ends.net /\ ends.ret = "Ok") => ends.run["helper"] = "running"
        /\ ends.ret \in {"Err", "panic"} => ends.run["helper"] # "running"

C36_Witness ==
    /\ ends.site = "init" /\ ends.net /\ ends.ret = "Err"
    /\ ends.run["helper"] = "exited"
    /\ Did("caller", <<"write", "pipe">>)

C38_FailedCreateLeavesNothing ==
    store.last.result = "Err" =>
        /\ \A c \in store.last.existing :
              /\ store.dirs.cgroup[c] # "absent"
              /\ "dir" \in store.dirs.state[c]
        /\ \A i \in ContainerIds :
              /\ store.last.before.cgroup[i] = "absent" => store.dirs.cgroup[i] = "absent"
              /\ store.last.before.state[i] = {} => store.dirs.state[i] = {}

\* C39: Container::destroy, the Drop of the container at its end included,
\* eventually returns in every execution, also when opening or writing
\* cgroup.kill fails while the init process is still running.
C39_DestroyReturns == (life.op = "destroy") ~> (life.op = "none")

\* C40: Container::kill, destroy and the Drop of the container only ever
\* reap the container's own init process: once the init has been reaped
\* through its process handle, they neither reap nor block on another child
\* of the caller, even when the recorded pid number has been given to one.
C40_OnlyOwnInitReaped ==
    /\ [](life.at = "drop_wait" /\ life.pid # NoPid =>
             ~(procs[life.pid].role = "other" /\ procs[life.pid].status = Running))
    /\ [][ContainerStep => \A p \in Pids : procs[p].role = "other" => procs'[p].role = "other"]_vars

====
